---- MODULE Spec2Model ----
(***************************************************************************)
(* TechnicalAnalyzer (src/analysis/technical.py): get_technical_summary    *)
(* over a pandas DataFrame of daily bars, and the trend / RSI / MACD /     *)
(* signal-scoring functions it calls.                                      *)
(*                                                                         *)
(* A float is a record: Num(v) for a number, NaN for pandas' undefined     *)
(* value; None is Python's None.  The arithmetic of the rolling / ewm      *)
(* calculators is not expanded: a price series is its length n and the     *)
(* values its raw columns yield on the last two bars (data.raw), the only  *)
(* two rows get_technical_summary reads back.                              *)
(*                                                                         *)
(* FundamentalAnalyzer (src/analysis/fundamental.py) over the mapping of   *)
(* fetched data, and GeminiAnalyst (src/ai/gemini_analyst.py): the prompt, *)
(* the call of the service and the parsing of its answer.                  *)
(***************************************************************************)
EXTENDS Integers, Sequences, FiniteSets, TLC

VARIABLES
    data,       \* the caller's DataFrame, shared by every call made on it
    pc,         \* pc[t]: where thread t stands inside get_technical_summary
    idx,        \* idx[t]: which of the column assignments of lines 113-119 is next
    loc,        \* loc[t]: positions DataFrame.__setitem__ found for the label
    t_latest,   \* t_latest[t]: the row data.iloc[-1] as read at line 122
    t_prev,     \* t_prev[t]: the row data.iloc[-2] as read at line 123
    t_trend,    \* t_trend[t]: line 129
    t_signals,  \* t_signals[t]: line 132
    outcome,    \* outcome[t]: what the call returned or raised
    before,     \* before[t]: the columns of data when the call began
    left,       \* left[t]: calls thread t has still to make
    sched,      \* the interpreter's scheduler: the thread holding the GIL and
                \* the preemptions made so far
    bars,       \* the Open/High/Low/Close/Volume columns an indicator function
                \* is applied to, cell by cell
    result,     \* what the function applied last returned
    fmp_data,   \* the mapping of fetched data get_fundamental_summary is given
    gemini      \* the GeminiAnalyst: whether it is enabled, what the service
                \* does when asked, and how often it was asked

vars ==
    <<data, pc, idx, loc, t_latest, t_prev, t_trend, t_signals, outcome, before, left, sched,
      bars, result, fmp_data, gemini>>

\* the variables of a call of get_technical_summary
call_vars ==
    <<data, pc, idx, loc, t_latest, t_prev, t_trend, t_signals, outcome, before, left, sched>>

MinBars == 50
MaxBars == 51
MaxCalls == 2
MaxSwitches == 2
MaxLen == 4
MaxPrice == 3
MaxPeriod == 3

Threads == {1, 2}

----------------------------------------------------------------------------
(* floats *)

NaN == [nan |-> TRUE]
None == [none |-> TRUE]
Inf == [inf |-> TRUE]
Num(v) == [num |-> v]

isna(x) == x = NaN
notna(x) == x # NaN

Abs(i) == IF i < 0 THEN -i ELSE i

RECURSIVE Gcd(_, _)
Gcd(a, b) == IF b = 0 THEN a ELSE Gcd(b, a % b)

\* the number p / q (q # 0) in lowest terms; a whole number is Num(v)
Rat(p, q) ==
    LET g == Gcd(Abs(p), Abs(q))
        s == IF q < 0 THEN -1 ELSE 1
    IN  IF Abs(q) = g THEN Num(s * (p \div g))
        ELSE [num |-> s * (p \div g), den |-> s * (q \div g)]

Den(a) == IF "den" \in DOMAIN a THEN a.den ELSE 1

\* IEEE comparisons: every comparison with NaN is False
FEq(a, b) == notna(a) /\ notna(b) /\ a = b
GT(a, b) == notna(a) /\ notna(b) /\ a.num * Den(b) > b.num * Den(a)
LT(a, b) == notna(a) /\ notna(b) /\ a.num * Den(b) < b.num * Den(a)
GE(a, b) == notna(a) /\ notna(b) /\ a.num * Den(b) >= b.num * Den(a)
LE(a, b) == notna(a) /\ notna(b) /\ a.num * Den(b) <= b.num * Den(a)

FSub(a, b) ==
    IF isna(a) \/ isna(b) THEN NaN
    ELSE Rat(a.num * Den(b) - b.num * Den(a), Den(a) * Den(b))
FAdd(a, b) ==
    IF isna(a) \/ isna(b) THEN NaN
    ELSE IF a = Inf \/ b = Inf THEN Inf
    ELSE Rat(a.num * Den(b) + b.num * Den(a), Den(a) * Den(b))
FMul(a, k) == IF isna(a) THEN NaN ELSE Rat(a.num * k, Den(a))

\* 0 / 0 taken as 0
FDiv_zero_by_zero_is_zero(a, b) ==
    IF isna(a) \/ isna(b) THEN NaN
    ELSE IF b = Inf THEN Num(0)
    ELSE IF b.num = 0 THEN (IF a.num = 0 THEN Num(0) ELSE Inf)
    ELSE Rat(a.num * Den(b), Den(a) * b.num)

\* a / b on float64: x / 0 is inf for x > 0 and NaN for x = 0, no exception
\* (taken on a >= 0 only)
FDiv(a, b) ==
    IF isna(a) \/ isna(b) THEN NaN
    ELSE IF b = Inf THEN Num(0)
    ELSE IF b.num = 0 THEN (IF a.num = 0 THEN NaN ELSE Inf)
    ELSE Rat(a.num * Den(b), Den(a) * b.num)

\* the value passed on whatever it is
float_unguarded(x) == x

\* float(x) if pd.notna(x) else None
float_or_none(x) == IF notna(x) THEN x ELSE None

----------------------------------------------------------------------------
(* rows: a row is the sequence of its cells, one per column, in column order; *)
(* a label the frame holds twice has two cells                                *)

Cells(row, key) == SelectSeq(row, LAMBDA c : c.name = key)
Dup(row, key) == Len(Cells(row, key)) > 1
Val(row, key) == Cells(row, key)[1].val

----------------------------------------------------------------------------
(* _determine_trend, lines 164-182 *)

determine_trend_loose(latest) ==
    LET price == Val(latest, "Close")
        sma_20 == Val(latest, "SMA_20")
        sma_50 == Val(latest, "SMA_50")
    IN  IF isna(sma_20) \/ isna(sma_50) THEN "Unknown"
        ELSE IF GT(price, sma_20) /\ GE(sma_20, sma_50) THEN "Strong Uptrend"
        ELSE IF GT(price, sma_20) THEN "Uptrend"
        ELSE IF LT(price, sma_20) /\ LT(sma_20, sma_50) THEN "Strong Downtrend"
        ELSE IF LT(price, sma_20) THEN "Downtrend"
        ELSE "Sideways"

determine_trend(latest) ==
    LET price == Val(latest, "Close")
        sma_20 == Val(latest, "SMA_20")
        sma_50 == Val(latest, "SMA_50")
    IN  IF isna(sma_20) \/ isna(sma_50) THEN "Unknown"
        ELSE IF GT(price, sma_20) /\ GT(sma_20, sma_50) THEN "Strong Uptrend"
        ELSE IF GT(price, sma_20) THEN "Uptrend"
        ELSE IF LT(price, sma_20) /\ LT(sma_20, sma_50) THEN "Strong Downtrend"
        ELSE IF LT(price, sma_20) THEN "Downtrend"
        ELSE "Sideways"

\* `pd.isna(sma_20) or pd.isna(sma_50)` on a label the row holds twice tests
\* the truth of a Series, which raises ValueError; `or` short-circuits
determine_trend_raises(latest) ==
    \/ Dup(latest, "SMA_20")
    \/ notna(Val(latest, "SMA_20")) /\ Dup(latest, "SMA_50")

----------------------------------------------------------------------------
(* _interpret_rsi, lines 184-193 *)

interpret_rsi_inclusive(rsi) ==
    IF isna(rsi) THEN "Unknown"
    ELSE IF GE(rsi, Num(70)) THEN "Overbought"
    ELSE IF LE(rsi, Num(30)) THEN "Oversold"
    ELSE "Neutral"

interpret_rsi(rsi) ==
    IF isna(rsi) THEN "Unknown"
    ELSE IF GT(rsi, Num(70)) THEN "Overbought"
    ELSE IF LT(rsi, Num(30)) THEN "Oversold"
    ELSE "Neutral"

----------------------------------------------------------------------------
(* _interpret_macd, lines 195-213 *)

interpret_macd(latest, prev) ==
    LET macd == Val(latest, "MACD")
        signal == Val(latest, "MACD_Signal")
        prev_macd == Val(prev, "MACD")
        prev_signal == Val(prev, "MACD_Signal")
    IN  IF isna(macd) \/ isna(signal) THEN "Unknown"
        ELSE IF LT(prev_macd, prev_signal) /\ GT(macd, signal) THEN "Bullish Crossover"
        ELSE IF GT(prev_macd, prev_signal) /\ LT(macd, signal) THEN "Bearish Crossover"
        ELSE IF GT(macd, signal) THEN "Bullish"
        ELSE "Bearish"

\* the truth tests of lines 202 and 206 on a label held twice
interpret_macd_raises(latest, prev) ==
    \/ Dup(latest, "MACD")
    \/ notna(Val(latest, "MACD")) /\ Dup(latest, "MACD_Signal")
    \/ /\ notna(Val(latest, "MACD"))
       /\ notna(Val(latest, "MACD_Signal"))
       /\ (Dup(prev, "MACD") \/ Dup(prev, "MACD_Signal"))

----------------------------------------------------------------------------
(* _generate_signals, lines 215-265; a signals value carries the local     *)
(* `score` next to the dict until line 255 stores it as strength           *)

new_signals == [overall |-> "NEUTRAL", strength |-> 0, reasons |-> <<>>, score |-> 0]

bump(s, by, reason) ==
    [s EXCEPT !.score = @ + by, !.reasons = Append(@, reason)]

\* lines 226-233
rsi_signals(s, latest) ==
    LET rsi == Val(latest, "RSI")
    IN  IF ~isna(rsi)
        THEN IF GT(rsi, Num(70)) THEN bump(s, -2, "RSI Overbought")
             ELSE IF LT(rsi, Num(30)) THEN bump(s, 2, "RSI Oversold")
             ELSE s
        ELSE s

\* a MACD rule chained as `elif` behind the RSI rules
macd_signals_chained(s, latest, prev) ==
    LET macd_interp == interpret_macd(latest, prev)
    IN  IF s.score # 0 THEN s
        ELSE IF macd_interp = "Bullish Crossover" THEN bump(s, 3, "MACD Bullish Crossover")
        ELSE IF macd_interp = "Bearish Crossover" THEN bump(s, -3, "MACD Bearish Crossover")
        ELSE s

\* lines 236-242
macd_signals(s, latest, prev) ==
    LET macd_interp == interpret_macd(latest, prev)
    IN  IF macd_interp = "Bullish Crossover" THEN bump(s, 3, "MACD Bullish Crossover")
        ELSE IF macd_interp = "Bearish Crossover" THEN bump(s, -3, "MACD Bearish Crossover")
        ELSE s

\* a moving-average rule without the isna guard of line 246, scoring an
\* undefined average as below the price
ma_signals_no_guard(s, latest) ==
    LET price == Val(latest, "Close")
        sma_20 == Val(latest, "SMA_20")
        sma_50 == Val(latest, "SMA_50")
    IN  IF ~LE(price, sma_20) /\ ~LE(sma_20, sma_50) THEN bump(s, 2, "Price Above Key MAs")
        ELSE IF LT(price, sma_20) /\ LT(sma_20, sma_50) THEN bump(s, -2, "Price Below Key MAs")
        ELSE s

\* lines 245-252
ma_signals(s, latest) ==
    LET price == Val(latest, "Close")
        sma_20 == Val(latest, "SMA_20")
        sma_50 == Val(latest, "SMA_50")
    IN  IF ~isna(sma_20) /\ ~isna(sma_50)
        THEN IF GT(price, sma_20) /\ GT(sma_20, sma_50) THEN bump(s, 2, "Price Above Key MAs")
             ELSE IF LT(price, sma_20) /\ LT(sma_20, sma_50) THEN bump(s, -2, "Price Below Key MAs")
             ELSE s
        ELSE s

\* the loose thresholds tested before the strong ones
overall_of_loose_first(score) ==
    IF score >= 1 THEN "BUY"
    ELSE IF score >= 3 THEN "STRONG BUY"
    ELSE IF score <= -1 THEN "SELL"
    ELSE IF score <= -3 THEN "STRONG SELL"
    ELSE "NEUTRAL"

\* lines 256-263; 'NEUTRAL' is the value line 218 set
overall_of(score) ==
    IF score >= 3 THEN "STRONG BUY"
    ELSE IF score >= 1 THEN "BUY"
    ELSE IF score <= -3 THEN "STRONG SELL"
    ELSE IF score <= -1 THEN "SELL"
    ELSE "NEUTRAL"

\* strength clamped to [-5, 5] instead of stored raw
set_overall_clamped(s) ==
    [overall |-> overall_of(s.score),
     strength |-> IF s.score > 5 THEN 5 ELSE IF s.score < -5 THEN -5 ELSE s.score,
     reasons |-> s.reasons]

\* lines 254-265
set_overall(s) ==
    [overall |-> overall_of(s.score), strength |-> s.score, reasons |-> s.reasons]

\* the moving-average rule left out
generate_signals_no_ma(latest, prev) ==
    set_overall(macd_signals(rsi_signals(new_signals, latest), latest, prev))

\* _generate_signals, lines 215-265
generate_signals(latest, prev) ==
    set_overall(ma_signals(macd_signals(rsi_signals(new_signals, latest), latest, prev), latest))

\* truth tests on labels held twice: lines 227, 236 (_interpret_macd), 246
generate_signals_raises(latest, prev) ==
    \/ Dup(latest, "RSI")
    \/ interpret_macd_raises(latest, prev)
    \/ Dup(latest, "SMA_20")
    \/ notna(Val(latest, "SMA_20")) /\ Dup(latest, "SMA_50")

----------------------------------------------------------------------------
(* columns: a Series is the sequence of its cells, oldest bar first; bar k  *)
(* of the model is index k - 1 of the source.  Arithmetic is exact: the     *)
(* rounding of float64 is not modelled.                                     *)

FDivK(a, k) == IF isna(a) THEN NaN ELSE Rat(a.num, Den(a) * k)
FProd(a, b) ==
    IF isna(a) \/ isna(b) THEN NaN ELSE Rat(a.num * b.num, Den(a) * Den(b))
FNeg(a) == IF isna(a) THEN NaN ELSE Rat(-a.num, Den(a))
FAbs(a) == IF isna(a) THEN NaN ELSE Rat(Abs(a.num), Den(a))
FMax(a, b) == IF GE(a, b) THEN a ELSE b
FMin(a, b) == IF LE(a, b) THEN a ELSE b

RECURSIVE FSum(_, _, _)
FSum(xs, a, b) ==
    IF a > b THEN Num(0)
    ELSE IF a = b THEN xs[a]
    ELSE LET m == (a + b) \div 2 IN FAdd(FSum(xs, a, m), FSum(xs, m + 1, b))

\* the least k in lo..hi with k * k * d >= n
RECURSIVE Bisect(_, _, _, _)
Bisect(n, d, lo, hi) ==
    IF lo = hi THEN lo
    ELSE LET mid == (lo + hi) \div 2
         IN  IF mid * mid * d >= n THEN Bisect(n, d, lo, mid)
             ELSE Bisect(n, d, mid + 1, hi)

\* the square root of a number >= 0, rounded up to the next multiple of
\* 1 / Den: 0 only for 0
FSqrt(a) == IF isna(a) THEN NaN ELSE Rat(Bisect(a.num * Den(a), 1, 0, 46340), Den(a))

\* int(x) for x >= 0
FInt(a) == a.num \div Den(a)

RECURSIVE ISum(_, _, _)
ISum(q, a, b) ==
    IF a > b THEN 0
    ELSE IF a = b THEN q[a]
    ELSE LET m == (a + b) \div 2 IN ISum(q, a, m) + ISum(q, m + 1, b)

\* Series.std() of up to 20 cells below 2 in size: the sample deviation
\* (ddof = 1) of the defined cells, NaN for fewer than two of them; the
\* cells are taken to a thousandth and the root rounded up to the next one
sample_std(xs) ==
    LET vals == SelectSeq(xs, LAMBDA x : notna(x))
        m == Len(vals)
        f == [k \in 1..m |-> (vals[k].num * 1000) \div Den(vals[k])]
        s1 == ISum(f, 1, m)
        s2 == ISum([k \in 1..m |-> f[k] * f[k]], 1, m)
    IN  IF m < 2 THEN NaN
        ELSE Rat(Bisect(m * s2 - s1 * s1, m * (m - 1), 0, 2000), 1000)

\* Series.rolling(window=w).mean(): min_periods is w, so the bars with fewer
\* than w cells behind them, or an undefined cell in the window, are NaN
rolling_mean_trailing_short(xs, w) ==
    [i \in 1..Len(xs) |->
        IF i < w - 1 THEN NaN
        ELSE FDivK(FSum(xs, IF i - w + 1 < 1 THEN 1 ELSE i - w + 1, i), w)]

rolling_mean(xs, w) ==
    [i \in 1..Len(xs) |-> IF i < w THEN NaN ELSE FDivK(FSum(xs, i - w + 1, i), w)]

\* Series.rolling(window=w).std(): the sample deviation (ddof = 1), NaN for
\* a window of one cell
rolling_std(xs, w) ==
    [i \in 1..Len(xs) |->
        IF i < w \/ w < 2 THEN NaN
        ELSE LET sq == [k \in 1..Len(xs) |-> FProd(xs[k], xs[k])]
                 s1 == FSum(xs, i - w + 1, i)
                 s2 == FSum(sq, i - w + 1, i)
             IN  FSqrt(FDivK(FSub(FMul(s2, w), FProd(s1, s1)), w * (w - 1)))]

\* Series.diff(): the first cell has no predecessor
diff(xs) == [i \in 1..Len(xs) |-> IF i = 1 THEN NaN ELSE FSub(xs[i], xs[i - 1])]

\* Series.pct_change()
pct_change(xs) ==
    [i \in 1..Len(xs) |-> IF i = 1 THEN NaN ELSE FDiv(FSub(xs[i], xs[i - 1]), xs[i - 1])]

\* calculate_sma on the Close column, lines 15-18
sma_of(close, period) == rolling_mean(close, period)

\* calculate_rsi on the Close column, lines 25-33.  delta.where(cond, 0)
\* keeps a cell where cond is True and puts 0 everywhere else, the
\* undefined first delta included (NaN > 0 is False)
rsi_gain(close, period) ==
    LET delta == diff(close)
    IN  rolling_mean([i \in 1..Len(close) |->
                        IF GT(delta[i], Num(0)) THEN delta[i] ELSE Num(0)], period)

rsi_loss(close, period) ==
    LET delta == diff(close)
    IN  rolling_mean([i \in 1..Len(close) |->
                        FNeg(IF LT(delta[i], Num(0)) THEN delta[i] ELSE Num(0))], period)

\* a zero average loss taken as no RSI at all
rsi_of_zero_loss_undefined(close, period) ==
    LET gain == rsi_gain(close, period)
        loss == rsi_loss(close, period)
    IN  [i \in 1..Len(close) |->
            LET rs == IF loss[i] = Num(0) THEN NaN ELSE FDiv(gain[i], loss[i])
            IN  FSub(Num(100), FDiv(Num(100), FAdd(Num(1), rs)))]

rsi_of(close, period) ==
    LET gain == rsi_gain(close, period)
        loss == rsi_loss(close, period)
    IN  [i \in 1..Len(close) |->
            LET rs == FDiv(gain[i], loss[i])
            IN  FSub(Num(100), FDiv(Num(100), FAdd(Num(1), rs)))]

\* the lower band one deviation below the middle
bollinger_of_narrow_lower(close, period, std_dev) ==
    LET sma == rolling_mean(close, period)
        std == rolling_std(close, period)
    IN  <<[i \in 1..Len(close) |-> FAdd(sma[i], FMul(std[i], std_dev))],
          sma,
          [i \in 1..Len(close) |-> FSub(sma[i], std[i])]>>

\* calculate_bollinger_bands on the Close column, lines 48-57
bollinger_of(close, period, std_dev) ==
    LET sma == rolling_mean(close, period)
        std == rolling_std(close, period)
        upper_band == [i \in 1..Len(close) |-> FAdd(sma[i], FMul(std[i], std_dev))]
        lower_band == [i \in 1..Len(close) |-> FSub(sma[i], FMul(std[i], std_dev))]
    IN  <<upper_band, sma, lower_band>>

\* calculate_atr, lines 87-97: max(axis=1) skips the two undefined
\* distances to the previous close on the first bar
atr_of(high, low, close, period) ==
    LET true_range ==
            [i \in 1..Len(close) |->
                LET high_low == FSub(high[i], low[i])
                IN  IF i = 1 THEN high_low
                    ELSE FMax(high_low, FMax(FAbs(FSub(high[i], close[i - 1])),
                                             FAbs(FSub(low[i], close[i - 1]))))]
    IN  rolling_mean(true_range, period)

RECURSIVE FLeast(_, _, _)
FLeast(xs, a, b) ==
    IF a = b THEN xs[a]
    ELSE LET m == (a + b) \div 2 IN FMin(FLeast(xs, a, m), FLeast(xs, m + 1, b))

RECURSIVE FGreatest(_, _, _)
FGreatest(xs, a, b) ==
    IF a = b THEN xs[a]
    ELSE LET m == (a + b) \div 2 IN FMax(FGreatest(xs, a, m), FGreatest(xs, m + 1, b))

\* Series.rolling(window=w, center=True): the window of bar i is the
\* trailing window of bar i + (w - 1) // 2, undefined where it leaves the
\* series
center_from(i, w) == i + ((w - 1) \div 2) - w + 1
center_to(i, w) == i + ((w - 1) \div 2)

rolling_min_centered(xs, w) ==
    [i \in 1..Len(xs) |->
        IF \/ center_from(i, w) < 1 \/ center_to(i, w) > Len(xs)
           \/ \E k \in center_from(i, w)..center_to(i, w) : isna(xs[k])
        THEN NaN
        ELSE FLeast(xs, center_from(i, w), center_to(i, w))]

rolling_max_centered(xs, w) ==
    [i \in 1..Len(xs) |->
        IF \/ center_from(i, w) < 1 \/ center_to(i, w) > Len(xs)
           \/ \E k \in center_from(i, w)..center_to(i, w) : isna(xs[k])
        THEN NaN
        ELSE FGreatest(xs, center_from(i, w), center_to(i, w))]

\* sorted(values): ascending
RECURSIVE sorted(_)
sorted(S) ==
    IF S = {} THEN <<>>
    ELSE LET m == CHOOSE x \in S : \A y \in S : LE(x, y)
         IN  <<m>> \o sorted(S \ {m})

\* q[-5:] and q[:5]
last5(q) == IF Len(q) <= 5 THEN q ELSE SubSeq(q, Len(q) - 4, Len(q))
first5(q) == IF Len(q) <= 5 THEN q ELSE SubSeq(q, 1, 5)

\* the five lowest supports and resistances kept
find_support_resistance_lowest(low, high, window) ==
    IF Len(low) < window * 2 THEN <<<<>>, <<>>>>
    ELSE LET lows == rolling_min_centered(low, window)
             highs == rolling_max_centered(high, window)
         IN  <<first5(sorted({low[i] : i \in {k \in 1..Len(low) : FEq(low[k], lows[k])}})),
               first5(sorted({high[i] : i \in {k \in 1..Len(high) : FEq(high[k], highs[k])}}))>>

\* find_support_resistance, lines 59-85: unique() drops the repeats
find_support_resistance(low, high, window) ==
    IF Len(low) < window * 2 THEN <<<<>>, <<>>>>
    ELSE LET lows == rolling_min_centered(low, window)
             support == {low[i] : i \in {k \in 1..Len(low) : FEq(low[k], lows[k])}}
             highs == rolling_max_centered(high, window)
             resistance == {high[i] : i \in {k \in 1..Len(high) : FEq(high[k], highs[k])}}
         IN  <<last5(sorted(support)), last5(sorted(resistance))>>

\* x.iloc[-20:]
tail20(xs) == IF Len(xs) <= 20 THEN xs ELSE SubSeq(xs, Len(xs) - 19, Len(xs))

\* a ratio of 1.5 counted as high
analyze_volume_inclusive(volume) ==
    IF Len(volume) < 20 THEN [status |-> "Insufficient data"]
    ELSE LET current_volume == volume[Len(volume)]
             avg_volume_20 == FDivK(FSum(tail20(volume), 1, 20), 20)
             volume_ratio ==
                IF GT(avg_volume_20, Num(0)) THEN FDiv(current_volume, avg_volume_20)
                ELSE Num(1)
         IN  [current |-> FInt(current_volume),
              average_20d |-> FInt(avg_volume_20),
              ratio |-> volume_ratio,
              status |-> IF GE(volume_ratio, Rat(3, 2)) THEN "High"
                         ELSE IF GT(volume_ratio, Rat(1, 2)) THEN "Normal"
                         ELSE "Low"]

\* the division made whatever the mean is
analyze_volume_unguarded(volume) ==
    IF Len(volume) < 20 THEN [status |-> "Insufficient data"]
    ELSE LET current_volume == volume[Len(volume)]
             avg_volume_20 == FDivK(FSum(tail20(volume), 1, 20), 20)
             volume_ratio == FDiv(current_volume, avg_volume_20)
         IN  [current |-> FInt(current_volume),
              average_20d |-> FInt(avg_volume_20),
              ratio |-> volume_ratio,
              status |-> IF GT(volume_ratio, Rat(3, 2)) THEN "High"
                         ELSE IF GT(volume_ratio, Rat(1, 2)) THEN "Normal"
                         ELSE "Low"]

\* _analyze_volume on the Volume column, lines 267-281
analyze_volume(volume) ==
    IF Len(volume) < 20 THEN [status |-> "Insufficient data"]
    ELSE LET current_volume == volume[Len(volume)]
             avg_volume_20 == FDivK(FSum(tail20(volume), 1, 20), 20)
             volume_ratio ==
                IF GT(avg_volume_20, Num(0)) THEN FDiv(current_volume, avg_volume_20)
                ELSE Num(1)
         IN  [current |-> FInt(current_volume),
              average_20d |-> FInt(avg_volume_20),
              ratio |-> volume_ratio,
              status |-> IF GT(volume_ratio, Rat(3, 2)) THEN "High"
                         ELSE IF GT(volume_ratio, Rat(1, 2)) THEN "Normal"
                         ELSE "Low"]

\* np.sqrt(252), to three decimals
Sqrt252 == Rat(15875, 1000)

\* the moderate band tested before the high one
calculate_volatility_moderate_first(close) ==
    IF Len(close) < 20 THEN [status |-> "Insufficient data"]
    ELSE LET returns == pct_change(close)
             volatility_20d == FMul(FProd(sample_std(tail20(returns)), Sqrt252), 100)
         IN  [annualized_20d |-> volatility_20d,
              status |-> IF GT(volatility_20d, Num(20)) THEN "Moderate"
                         ELSE IF GT(volatility_20d, Num(40)) THEN "High"
                         ELSE "Low"]

\* _calculate_volatility on the Close column, lines 283-294
calculate_volatility(close) ==
    IF Len(close) < 20 THEN [status |-> "Insufficient data"]
    ELSE LET returns == pct_change(close)
             volatility_20d == FMul(FProd(sample_std(tail20(returns)), Sqrt252), 100)
         IN  [annualized_20d |-> volatility_20d,
              status |-> IF GT(volatility_20d, Num(40)) THEN "High"
                         ELSE IF GT(volatility_20d, Num(20)) THEN "Moderate"
                         ELSE "Low"]

----------------------------------------------------------------------------
(* the DataFrame: data.n bars; data.cols its columns in order, each with    *)
(* its label and its cells on the last and the previous bar; data.raw what  *)
(* the rolling / ewm arithmetic yields from the raw columns on those bars   *)

RawLabels == <<"Open", "High", "Low", "Close", "Volume">>

raw_columns(raw) ==
    [i \in 1..Len(RawLabels) |->
        [name |-> RawLabels[i], last |-> raw.bar[RawLabels[i]].last,
         prev |-> raw.bar[RawLabels[i]].prev]]

\* Series.rolling(window=period): undefined on the first period-1 bars
rolling(d, period, v) ==
    [last |-> IF d.n >= period THEN v.last ELSE NaN,
     prev |-> IF d.n - 1 >= period THEN v.prev ELSE NaN]

\* lines 15-18
calculate_sma(d, period) == rolling(d, period, d.raw.mean[period])

\* lines 25-33; line 29 turns the undefined first delta into a gain of 0, so
\* the rolling means are defined from bar `period`-1 on
calculate_rsi(d) == rolling(d, 14, d.raw.rsi)

\* lines 35-46: ewm(adjust=False) is defined from the first bar on
calculate_macd(d) ==
    LET macd_line == d.raw.macd
        signal_line == d.raw.macd_signal
        histogram == [last |-> FSub(macd_line.last, signal_line.last),
                      prev |-> FSub(macd_line.prev, signal_line.prev)]
    IN  <<macd_line, signal_line, histogram>>

\* lines 48-57
calculate_bollinger_bands(d) ==
    LET sma == rolling(d, 20, d.raw.mean[20])
        std == rolling(d, 20, d.raw.std)
        upper_band == [last |-> FAdd(sma.last, FMul(std.last, 2)),
                       prev |-> FAdd(sma.prev, FMul(std.prev, 2))]
        lower_band == [last |-> FSub(sma.last, FMul(std.last, 2)),
                       prev |-> FSub(sma.prev, FMul(std.prev, 2))]
    IN  <<upper_band, sma, lower_band>>

\* lines 87-97
calculate_atr(d) == rolling(d, 14, d.raw.atr)

\* the labels lines 113-119 assign, in order
Assigned ==
    <<"SMA_20", "SMA_50", "SMA_200", "RSI", "MACD", "MACD_Signal", "MACD_Hist",
      "BB_Upper", "BB_Middle", "BB_Lower", "ATR">>

\* the right-hand side of the k-th assignment
assigned_value(d, k) ==
    CASE k = 1 -> calculate_sma(d, 20)
      [] k = 2 -> calculate_sma(d, 50)
      [] k = 3 -> calculate_sma(d, 200)
      [] k = 4 -> calculate_rsi(d)
      [] k = 5 -> calculate_macd(d)[1]
      [] k = 6 -> calculate_macd(d)[2]
      [] k = 7 -> calculate_macd(d)[3]
      [] k = 8 -> calculate_bollinger_bands(d)[1]
      [] k = 9 -> calculate_bollinger_bands(d)[2]
      [] k = 10 -> calculate_bollinger_bands(d)[3]
      [] k = 11 -> calculate_atr(d)

\* DataFrame.__setitem__, first half: the positions of the label in the
\* column index (none: KeyError)
get_loc(d, key) == {i \in 1..Len(d.cols) : d.cols[i].name = key}

\* the column added at the end whether the label is there or not
set_item_append(d, key, v, at) ==
    [d EXCEPT !.cols = Append(@, [name |-> key, last |-> v.last, prev |-> v.prev])]

\* DataFrame.__setitem__, second half: with no position found the column is
\* inserted at the end, otherwise every position found is overwritten
set_item(d, key, v, at) ==
    IF at = {}
    THEN [d EXCEPT !.cols = Append(@, [name |-> key, last |-> v.last, prev |-> v.prev])]
    ELSE [d EXCEPT !.cols =
            [i \in 1..Len(@) |->
                IF i \in at THEN [name |-> key, last |-> v.last, prev |-> v.prev]
                ELSE @[i]]]

\* data.iloc[-1] and data.iloc[-2]: a copy of one row
iloc(d, which) ==
    [i \in 1..Len(d.cols) |->
        [name |-> d.cols[i].name,
         val |-> IF which = -1 THEN d.cols[i].last ELSE d.cols[i].prev]]

----------------------------------------------------------------------------
(* get_technical_summary, lines 99-162 *)

Pending == [kind |-> "pending"]
Returned(v) == [kind |-> "return", value |-> v]
Raised(e) == [kind |-> "raise", exc |-> e]

InsufficientData == [error |-> "Insufficient data for technical analysis"]

\* the gate of line 109 with the bound itself refused
insufficient_inclusive(d) == Len(d.cols) = 0 \/ d.n = 0 \/ d.n <= MinBars

\* line 109: data.empty or len(data) < 50
insufficient(d) == Len(d.cols) = 0 \/ d.n = 0 \/ d.n < MinBars

\* the labels of `latest` whose truth lines 145-156 test
Shown ==
    {"RSI", "MACD", "MACD_Signal", "MACD_Hist", "SMA_20", "SMA_50", "SMA_200",
     "BB_Upper", "BB_Lower", "ATR"}

\* lines 137-162; lines 126, 135 and 161 read the raw columns of d only
summary(d, latest, prev, trend, signals) ==
    [current_price |-> Val(latest, "Close"),
     previous_close |-> Val(prev, "Close"),
     change_pct |->
        FMul(FDiv(FSub(Val(latest, "Close"), Val(prev, "Close")), Val(prev, "Close")), 100),
     volume |-> FInt(Val(latest, "Volume")),
     volume_analysis |-> d.raw.volume_analysis,
     trend |-> trend,
     indicators |->
        [rsi |-> float_or_none(Val(latest, "RSI")),
         rsi_signal |-> interpret_rsi(Val(latest, "RSI")),
         macd |-> float_or_none(Val(latest, "MACD")),
         macd_signal |-> float_or_none(Val(latest, "MACD_Signal")),
         macd_histogram |-> float_or_none(Val(latest, "MACD_Hist")),
         macd_interpretation |-> interpret_macd(latest, prev),
         sma_20 |-> float_or_none(Val(latest, "SMA_20")),
         sma_50 |-> float_or_none(Val(latest, "SMA_50")),
         sma_200 |-> float_or_none(Val(latest, "SMA_200")),
         bb_upper |-> float_or_none(Val(latest, "BB_Upper")),
         bb_lower |-> float_or_none(Val(latest, "BB_Lower")),
         atr |-> float_or_none(Val(latest, "ATR"))],
     support_levels |-> d.raw.levels[1],
     resistance_levels |-> d.raw.levels[2],
     signals |-> signals,
     volatility |-> d.raw.volatility]

\* `float(x) if pd.notna(x) else None` on a label held twice, and line 150
summary_raises(latest, prev) ==
    \/ \E k \in Shown : Dup(latest, k)
    \/ interpret_macd_raises(latest, prev)

NoRow == <<>>
NoSignals == [overall |-> "", strength |-> 0, reasons |-> <<>>]

\* thread t takes the next step: it holds the GIL already, or takes it over
\* from a thread that is outside a call, or preempts a thread inside one, of
\* which a run has at most MaxSwitches
Run(t) ==
    LET r == sched.running
        preempts == r \notin {0, t} /\ pc[r] # "idle"
    IN  /\ preempts => sched.switches < MaxSwitches
        /\ sched' = [running |-> t,
                     switches |-> IF preempts THEN sched.switches + 1 ELSE sched.switches]

\* a caller with calls left passes `data` to get_technical_summary
Call(t) ==
    /\ pc[t] = "idle"
    /\ Run(t)
    /\ left[t] > 0
    /\ pc' = [pc EXCEPT ![t] = "gate"]
    /\ left' = [left EXCEPT ![t] = @ - 1]
    /\ before' = [before EXCEPT ![t] = data.cols]
    /\ outcome' = [outcome EXCEPT ![t] = Pending]
    /\ idx' = [idx EXCEPT ![t] = 0]
    /\ loc' = [loc EXCEPT ![t] = {}]
    /\ t_latest' = [t_latest EXCEPT ![t] = NoRow]
    /\ t_prev' = [t_prev EXCEPT ![t] = NoRow]
    /\ t_trend' = [t_trend EXCEPT ![t] = ""]
    /\ t_signals' = [t_signals EXCEPT ![t] = NoSignals]
    /\ UNCHANGED data
    /\ UNCHANGED <<bars, result, fmp_data, gemini>>

\* the first column assigned before the length is tested
Gate_after_assignment(t) ==
    /\ pc[t] = "gate"
    /\ Run(t)
    /\ data' = set_item(data, "SMA_20", [last |-> NaN, prev |-> NaN], {})
    /\ IF insufficient(data)
       THEN /\ outcome' = [outcome EXCEPT ![t] = Returned(InsufficientData)]
            /\ pc' = [pc EXCEPT ![t] = "idle"]
            /\ UNCHANGED idx
       ELSE /\ pc' = [pc EXCEPT ![t] = "get_loc"]
            /\ idx' = [idx EXCEPT ![t] = 1]
            /\ UNCHANGED outcome
    /\ UNCHANGED <<loc, t_latest, t_prev, t_trend, t_signals, before, left>>
    /\ UNCHANGED <<bars, result, fmp_data, gemini>>

\* lines 109-110
Gate(t) ==
    /\ pc[t] = "gate"
    /\ Run(t)
    /\ IF insufficient(data)
       THEN /\ outcome' = [outcome EXCEPT ![t] = Returned(InsufficientData)]
            /\ pc' = [pc EXCEPT ![t] = "idle"]
            /\ UNCHANGED idx
       ELSE /\ pc' = [pc EXCEPT ![t] = "get_loc"]
            /\ idx' = [idx EXCEPT ![t] = 1]
            /\ UNCHANGED outcome
    /\ UNCHANGED <<data, loc, t_latest, t_prev, t_trend, t_signals, before, left>>
    /\ UNCHANGED <<bars, result, fmp_data, gemini>>

\* lines 113-119, each assignment data[label] = value: the label is looked up
SetItemLookup(t) ==
    /\ pc[t] = "get_loc"
    /\ Run(t)
    /\ loc' = [loc EXCEPT ![t] = get_loc(data, Assigned[idx[t]])]
    /\ pc' = [pc EXCEPT ![t] = "set_item"]
    /\ UNCHANGED <<data, idx, t_latest, t_prev, t_trend, t_signals, outcome, before, left>>
    /\ UNCHANGED <<bars, result, fmp_data, gemini>>

\* ... and the column is inserted or overwritten
SetItemStore(t) ==
    /\ pc[t] = "set_item"
    /\ Run(t)
    /\ data' = set_item(data, Assigned[idx[t]], assigned_value(data, idx[t]), loc[t])
    /\ loc' = [loc EXCEPT ![t] = {}]
    /\ IF idx[t] < Len(Assigned)
       THEN /\ idx' = [idx EXCEPT ![t] = @ + 1]
            /\ pc' = [pc EXCEPT ![t] = "get_loc"]
       ELSE /\ idx' = [idx EXCEPT ![t] = 0]
            /\ pc' = [pc EXCEPT ![t] = "latest"]
    /\ UNCHANGED <<t_latest, t_prev, t_trend, t_signals, outcome, before, left>>
    /\ UNCHANGED <<bars, result, fmp_data, gemini>>

\* line 122
ReadLatest(t) ==
    /\ pc[t] = "latest"
    /\ Run(t)
    /\ t_latest' = [t_latest EXCEPT ![t] = iloc(data, -1)]
    /\ pc' = [pc EXCEPT ![t] = "prev"]
    /\ UNCHANGED <<data, idx, loc, t_prev, t_trend, t_signals, outcome, before, left>>
    /\ UNCHANGED <<bars, result, fmp_data, gemini>>

\* line 123 (len(data) > 1 always holds past the gate)
ReadPrev(t) ==
    /\ pc[t] = "prev"
    /\ Run(t)
    /\ t_prev' = [t_prev EXCEPT ![t] = iloc(data, -2)]
    /\ pc' = [pc EXCEPT ![t] = "trend"]
    /\ UNCHANGED <<data, idx, loc, t_latest, t_trend, t_signals, outcome, before, left>>
    /\ UNCHANGED <<bars, result, fmp_data, gemini>>

\* line 129
Trend(t) ==
    /\ pc[t] = "trend"
    /\ Run(t)
    /\ IF determine_trend_raises(t_latest[t])
       THEN /\ outcome' = [outcome EXCEPT ![t] = Raised("ValueError")]
            /\ pc' = [pc EXCEPT ![t] = "idle"]
            /\ UNCHANGED t_trend
       ELSE /\ t_trend' = [t_trend EXCEPT ![t] = determine_trend(t_latest[t])]
            /\ pc' = [pc EXCEPT ![t] = "signals"]
            /\ UNCHANGED outcome
    /\ UNCHANGED <<data, idx, loc, t_latest, t_prev, t_signals, before, left>>
    /\ UNCHANGED <<bars, result, fmp_data, gemini>>

\* line 132
Signals(t) ==
    /\ pc[t] = "signals"
    /\ Run(t)
    /\ IF generate_signals_raises(t_latest[t], t_prev[t])
       THEN /\ outcome' = [outcome EXCEPT ![t] = Raised("ValueError")]
            /\ pc' = [pc EXCEPT ![t] = "idle"]
            /\ UNCHANGED t_signals
       ELSE /\ t_signals' = [t_signals EXCEPT ![t] = generate_signals(t_latest[t], t_prev[t])]
            /\ pc' = [pc EXCEPT ![t] = "return"]
            /\ UNCHANGED outcome
    /\ UNCHANGED <<data, idx, loc, t_latest, t_prev, t_trend, before, left>>
    /\ UNCHANGED <<bars, result, fmp_data, gemini>>

\* lines 137-162
Return(t) ==
    /\ pc[t] = "return"
    /\ Run(t)
    /\ outcome' = [outcome EXCEPT ![t] =
            IF summary_raises(t_latest[t], t_prev[t]) THEN Raised("ValueError")
            ELSE Returned(summary(data, t_latest[t], t_prev[t], t_trend[t], t_signals[t]))]
    /\ pc' = [pc EXCEPT ![t] = "idle"]
    /\ UNCHANGED <<data, idx, loc, t_latest, t_prev, t_trend, t_signals, before, left>>
    /\ UNCHANGED <<bars, result, fmp_data, gemini>>

\* lines 112-119 in sequence, from the k-th assignment on
RECURSIVE assign_from(_, _)
assign_from(d, k) ==
    IF k > Len(Assigned) THEN d
    ELSE assign_from(
            set_item(d, Assigned[k], assigned_value(d, k), get_loc(d, Assigned[k])), k + 1)

\* lines 99-162 run by one thread without interruption: what the call returns
get_technical_summary(d) ==
    IF insufficient(d) THEN Returned(InsufficientData)
    ELSE LET w == assign_from(d, 1)
             latest == iloc(w, -1)
             prev == iloc(w, -2)
         IN  Returned(summary(w, latest, prev, determine_trend(latest),
                              generate_signals(latest, prev)))

Next ==
    \E t \in Threads :
        \/ Call(t)
        \/ Gate(t)
        \/ SetItemLookup(t)
        \/ SetItemStore(t)
        \/ ReadLatest(t)
        \/ ReadPrev(t)
        \/ Trend(t)
        \/ Signals(t)
        \/ Return(t)

----------------------------------------------------------------------------
(* the price series the callers pass in *)

Both(v) == [last |-> v, prev |-> v]

\* a series by what its columns yield on the last two bars: close and
\* previous close, the 20- and 50-bar means, RSI, and MACD line and signal
\* line on both bars; lines 126, 135 and 161 see 40 bars, all at the
\* previous close but the last, with a volume of 1
MkRaw(close, pclose, m20, m50, rsi, macd, sig, pmacd, psig) ==
    LET c == [i \in 1..40 |-> IF i = 40 THEN close ELSE pclose]
    IN
    [bar |-> [l \in {RawLabels[i] : i \in 1..Len(RawLabels)} |->
                IF l = "Volume" THEN Both(Num(1))
                ELSE [last |-> close, prev |-> pclose]],
     mean |-> (20 :> Both(m20)) @@ (50 :> Both(m50)) @@ (200 :> Both(m50)),
     rsi |-> Both(rsi),
     macd |-> [last |-> macd, prev |-> pmacd],
     macd_signal |-> [last |-> sig, prev |-> psig],
     std |-> Both(Num(1)),
     atr |-> Both(Num(1)),
     levels |-> find_support_resistance(c, c, 20),
     volume_analysis |-> analyze_volume([i \in 1..40 |-> Num(1)]),
     volatility |-> calculate_volatility(c)]

\* x.iloc[-1] and x.iloc[-2] of a column
LastTwo(xs) ==
    [last |-> IF Len(xs) > 0 THEN xs[Len(xs)] ELSE NaN,
     prev |-> IF Len(xs) > 1 THEN xs[Len(xs) - 1] ELSE NaN]

\* the 20-bar mean under the 50-bar label and the other way round
RawOf_means_swapped(b, macd, sig, pmacd, psig) ==
    [bar |-> [l \in {RawLabels[i] : i \in 1..Len(RawLabels)} |-> LastTwo(b[l])],
     mean |-> (20 :> LastTwo(sma_of(b.Close, 50))) @@ (50 :> LastTwo(sma_of(b.Close, 20)))
                @@ (200 :> LastTwo(sma_of(b.Close, 200))),
     rsi |-> LastTwo(rsi_of(b.Close, 14)),
     macd |-> [last |-> macd, prev |-> pmacd],
     macd_signal |-> [last |-> sig, prev |-> psig],
     std |-> LastTwo(rolling_std(b.Close, 20)),
     atr |-> LastTwo(atr_of(b.High, b.Low, b.Close, 14)),
     levels |-> find_support_resistance(b.Low, b.High, 20),
     volume_analysis |-> analyze_volume(b.Volume),
     volatility |-> calculate_volatility(b.Close)]

\* a series by its columns b: what the calculators of lines 113-119, 126,
\* 135 and 161 yield from them, the two ewm lines of calculate_macd given
RawOf(b, macd, sig, pmacd, psig) ==
    [bar |-> [l \in {RawLabels[i] : i \in 1..Len(RawLabels)} |-> LastTwo(b[l])],
     mean |-> (20 :> LastTwo(sma_of(b.Close, 20))) @@ (50 :> LastTwo(sma_of(b.Close, 50)))
                @@ (200 :> LastTwo(sma_of(b.Close, 200))),
     rsi |-> LastTwo(rsi_of(b.Close, 14)),
     macd |-> [last |-> macd, prev |-> pmacd],
     macd_signal |-> [last |-> sig, prev |-> psig],
     std |-> LastTwo(rolling_std(b.Close, 20)),
     atr |-> LastTwo(atr_of(b.High, b.Low, b.Close, 14)),
     levels |-> find_support_resistance(b.Low, b.High, 20),
     volume_analysis |-> analyze_volume(b.Volume),
     volatility |-> calculate_volatility(b.Close)]

Frame(n, raw) == [n |-> n, raw |-> raw, cols |-> raw_columns(raw)]

\* MACD line and signal line above, below and on each other
MacdPairs == {<<Num(1), Num(0)>>, <<Num(0), Num(1)>>, <<Num(0), Num(0)>>}

\* series of defined closes: every trend, RSI overbought, oversold and
\* undefined (a flat window: no gain, no loss), MACD crossing or not
FlowRaws ==
    {MkRaw(Num(2), Num(2), m20, m50, rsi, m[1], m[2], pm[1], pm[2]) :
        m20 \in {Num(1), Num(3)}, m50 \in {Num(0), Num(4)},
        rsi \in {NaN, Num(25), Num(75)},
        m \in {<<Num(1), Num(0)>>, <<Num(0), Num(1)>>}, pm \in MacdPairs}

ConcRaws ==
    {MkRaw(Num(2), Num(2), Num(1), Num(0), rsi, Num(1), Num(0), Num(0), Num(1)) :
        rsi \in {NaN, Num(25)}}

\* pd.DataFrame(), what get_stock_history returns on a failed fetch
EmptyFrame == [n |-> 0, raw |-> CHOOSE r \in ConcRaws : TRUE, cols |-> <<>>]

NoBars == [Open |-> <<>>, High |-> <<>>, Low |-> <<>>, Close |-> <<>>, Volume |-> <<>>]
NoResult == [op |-> ""]
NoFmpData == [none |-> TRUE]
NoAnalyst == [enabled |-> FALSE, service |-> [none |-> TRUE], asked |-> 0]

\* no call is under way
InitIdle ==
    /\ pc = [t \in Threads |-> "idle"]
    /\ idx = [t \in Threads |-> 0]
    /\ loc = [t \in Threads |-> {}]
    /\ t_latest = [t \in Threads |-> NoRow]
    /\ t_prev = [t \in Threads |-> NoRow]
    /\ t_trend = [t \in Threads |-> ""]
    /\ t_signals = [t \in Threads |-> NoSignals]
    /\ outcome = [t \in Threads |-> Pending]
    /\ sched = [running |-> 0, switches |-> 0]

\* neither the fundamental analysis nor the analyst is used
InitCore ==
    /\ fmp_data = NoFmpData
    /\ gemini = NoAnalyst

\* ... and no indicator function is applied on its own
InitLocals ==
    /\ InitIdle
    /\ InitCore
    /\ bars = NoBars
    /\ result = NoResult

\* one caller making up to MaxCalls calls in sequence on the same DataFrame
Init ==
    /\ data \in {Frame(n, raw) : n \in 0..MaxBars, raw \in FlowRaws} \cup {EmptyFrame}
    /\ InitLocals
    /\ before = [t \in Threads |-> data.cols]
    /\ left = [t \in Threads |-> IF t = 1 THEN MaxCalls ELSE 0]

Spec == Init /\ [][Next]_vars

\* two threads, each calling once on the same DataFrame
InitConc ==
    /\ data \in {Frame(n, raw) : n \in (MinBars - 1)..MaxBars, raw \in ConcRaws}
    /\ InitLocals
    /\ before = [t \in Threads |-> data.cols]
    /\ left = [t \in Threads |-> 1]

SpecConc == InitConc /\ [][Next]_vars

----------------------------------------------------------------------------
(* the trend, interpretation and scoring functions on every latest and      *)
(* previous row: the call of thread 1 stands at line 129 with its rows read *)

MkRow(close, sma_20, sma_50, rsi, macd, sig) ==
    <<[name |-> "Open", val |-> close], [name |-> "High", val |-> close],
      [name |-> "Low", val |-> close], [name |-> "Close", val |-> close],
      [name |-> "Volume", val |-> Num(1)],
      [name |-> "SMA_20", val |-> sma_20], [name |-> "SMA_50", val |-> sma_50],
      [name |-> "SMA_200", val |-> NaN], [name |-> "RSI", val |-> rsi],
      [name |-> "MACD", val |-> macd], [name |-> "MACD_Signal", val |-> sig],
      [name |-> "MACD_Hist", val |-> FSub(macd, sig)],
      [name |-> "BB_Upper", val |-> FAdd(sma_20, Num(2))],
      [name |-> "BB_Middle", val |-> sma_20],
      [name |-> "BB_Lower", val |-> FSub(sma_20, Num(2))],
      [name |-> "ATR", val |-> Num(1)]>>

\* a defined close (an undefined close leaves the rolling means undefined)
\* against averages below, on and above it, or undefined
Sma20s == {NaN, Num(1), Num(2), Num(3)}
Sma50s == {NaN, Num(0), Num(1), Num(3), Num(4)}
Rsis == {NaN, Num(29), Num(30), Num(70), Num(71)}
Macds == {NaN, Num(0), Num(1)}

LatestRows ==
    {MkRow(Num(2), a, b, r, m, g) : a \in Sma20s, b \in Sma50s, r \in Rsis, m \in Macds, g \in Macds}

PrevRows ==
    {MkRow(Num(2), Num(2), Num(2), Num(50), m, g) : m \in Macds, g \in Macds}

InitSignals ==
    /\ data = Frame(MinBars, CHOOSE r \in ConcRaws : TRUE)
    /\ pc = [t \in Threads |-> IF t = 1 THEN "trend" ELSE "idle"]
    /\ idx = [t \in Threads |-> 0]
    /\ loc = [t \in Threads |-> {}]
    /\ t_latest \in [Threads -> LatestRows \cup {NoRow}]
    /\ t_latest[2] = NoRow /\ t_latest[1] # NoRow
    /\ t_prev \in [Threads -> PrevRows \cup {NoRow}]
    /\ t_prev[2] = NoRow /\ t_prev[1] # NoRow
    /\ t_trend = [t \in Threads |-> ""]
    /\ t_signals = [t \in Threads |-> NoSignals]
    /\ outcome = [t \in Threads |-> Pending]
    /\ before = [t \in Threads |-> data.cols]
    /\ left = [t \in Threads |-> 0]
    /\ sched = [running |-> 1, switches |-> 0]
    /\ bars = NoBars
    /\ result = NoResult
    /\ InitCore

NextSignals == \E t \in Threads : Trend(t) \/ Signals(t) \/ Return(t)

SpecSignals == InitSignals /\ [][NextSignals]_vars

----------------------------------------------------------------------------
(* the indicator functions one by one: one of them is applied, once, to one *)
(* of the series below with one of the periods below                        *)

\* the columns of a series with these closes and volumes: each bar a low at
\* its close and a high one above it
BarsOf(c, v) ==
    [Open |-> <<>> \o [i \in 1..Len(c) |-> Num(c[i])],
     High |-> <<>> \o [i \in 1..Len(c) |-> Num(c[i] + 1)],
     Low |-> <<>> \o [i \in 1..Len(c) |-> Num(c[i])],
     Close |-> <<>> \o [i \in 1..Len(c) |-> Num(c[i])],
     Volume |-> <<>> \o [i \in 1..Len(v) |-> Num(v[i])]]

\* every series of up to MaxLen bars with prices 1..MaxPrice
ShortBars ==
    {BarsOf(c, c) : c \in UNION {[1..n -> 1..MaxPrice] : n \in 0..MaxLen}}

\* n bars at a, the last k of them each d above (below, for d < 0) the one
\* before
Ramp(n, a, k, d) == [i \in 1..n |-> IF i <= n - k THEN a ELSE a + (i - (n - k)) * d]

\* n bars alternating between a and b
Zigzag(n, a, b) == [i \in 1..n |-> IF i % 2 = 1 THEN a ELSE b]

\* lengths around the periods 14, 20, 50 and 200 and around twice 20
Lengths == {13, 14, 15, 19, 20, 21, 39, 40, 49, 50, 199, 200}

LongCloses(n) ==
    {Ramp(n, 10, 0, 0), Ramp(n, 10, 12, 1), Ramp(n, 40, 12, -2), Ramp(n, 10, 1, 5),
     Zigzag(n, 1000, 1010), Zigzag(n, 1000, 1020), Zigzag(n, 1000, 1040)}

\* the last volume against the 19 before it: ratio 1, 1.5, 0.5, above,
\* below, and no volume at all
LongVolumes(n) ==
    {Ramp(n, 1, 0, 0), Ramp(n, 37, 1, 20), Ramp(n, 39, 1, -20), Ramp(n, 1, 1, 4),
     Ramp(n, 5, 1, -4), Ramp(n, 0, 0, 0)}

LongBars ==
    UNION {{BarsOf(c, Ramp(n, 1, 0, 0)) : c \in LongCloses(n)}
            \cup {BarsOf(Ramp(n, 10, 0, 0), v) : v \in LongVolumes(n)} : n \in Lengths}

Periods == 1..MaxPeriod

InitSeries ==
    /\ bars \in ShortBars \cup LongBars
    /\ result = NoResult
    /\ InitCore
    /\ data = EmptyFrame
    /\ InitIdle
    /\ before = [t \in Threads |-> data.cols]
    /\ left = [t \in Threads |-> 0]

\* calculate_sma(data, period), and what lines 151-153 show of its last cell
ApplySma(period) ==
    /\ result = NoResult
    /\ result' = [op |-> "calculate_sma", period |-> period,
                  out |-> sma_of(bars.Close, period),
                  shown |-> float_or_none(LastTwo(sma_of(bars.Close, period)).last)]
    /\ UNCHANGED <<call_vars, bars, fmp_data, gemini>>

\* calculate_rsi(data, period)
ApplyRsi(period) ==
    /\ result = NoResult
    /\ result' = [op |-> "calculate_rsi", period |-> period,
                  out |-> rsi_of(bars.Close, period)]
    /\ UNCHANGED <<call_vars, bars, fmp_data, gemini>>

\* calculate_bollinger_bands(data, period), std_dev left at 2
ApplyBollinger(period) ==
    /\ result = NoResult
    /\ result' = [op |-> "calculate_bollinger_bands", period |-> period,
                  out |-> bollinger_of(bars.Close, period, 2)]
    /\ UNCHANGED <<call_vars, bars, fmp_data, gemini>>

\* find_support_resistance(data, window)
ApplySupportResistance(window) ==
    /\ result = NoResult
    /\ result' = [op |-> "find_support_resistance", period |-> window,
                  out |-> find_support_resistance(bars.Low, bars.High, window)]
    /\ UNCHANGED <<call_vars, bars, fmp_data, gemini>>

\* _analyze_volume(data)
ApplyVolume ==
    /\ result = NoResult
    /\ result' = [op |-> "_analyze_volume", out |-> analyze_volume(bars.Volume)]
    /\ UNCHANGED <<call_vars, bars, fmp_data, gemini>>

\* _calculate_volatility(data)
ApplyVolatility ==
    /\ result = NoResult
    /\ result' = [op |-> "_calculate_volatility", out |-> calculate_volatility(bars.Close)]
    /\ UNCHANGED <<call_vars, bars, fmp_data, gemini>>

NextSeries ==
    \/ \E period \in Periods \cup {20, 50, 200} : ApplySma(period)
    \/ \E period \in Periods \cup {14} : ApplyRsi(period)
    \/ \E period \in Periods \cup {20} : ApplyBollinger(period)
    \/ \E window \in Periods \cup {20} : ApplySupportResistance(window)
    \/ ApplyVolume
    \/ ApplyVolatility

SpecSeries == InitSeries /\ [][NextSeries]_vars

----------------------------------------------------------------------------
(* get_technical_summary on series given bar by bar: positive prices, flat, *)
(* rising or falling over the last 30 bars, jumping on the last bar, or      *)
(* alternating; volumes of 0 or more                                         *)

\* n bars at a and then the increments of incs, one per bar
Climb(n, a, incs) ==
    [i \in 1..n |->
        IF i <= n - Len(incs) THEN a ELSE a + ISum(incs, 1, i - (n - Len(incs)))]

\* 30 increments: all 1, all 2, and 1 and 2 in turn
Steps30 ==
    {[i \in 1..30 |-> 1], [i \in 1..30 |-> 2], [i \in 1..30 |-> 1 + (i % 2)],
     [i \in 1..30 |-> 2 - (i % 2)]}

FlowCloses(n) ==
    {Climb(n, a, incs) : a \in {1, 10}, incs \in Steps30}
        \cup {Ramp(n, 10, 0, 0), Ramp(n, 70, 30, -2), Ramp(n, 10, 1, 5), Ramp(n, 10, 1, -5),
              Zigzag(n, 1000, 1010), Zigzag(n, 1000, 1040)}

FlowBars ==
    UNION {{BarsOf(c, Ramp(n, 1, 0, 0)) : c \in FlowCloses(n)}
            \cup {BarsOf(Ramp(n, 10, 0, 0), v) : v \in LongVolumes(n)} :
           n \in (MinBars - 1)..MaxBars \cup {60}}

\* the DataFrame of these bars
FlowFrames ==
    UNION {{[bars |-> x.bars,
             data |-> Frame(Len(x.bars.Close),
                            [x.raw EXCEPT !.macd = [last |-> m[1], prev |-> pm[1]],
                                          !.macd_signal = [last |-> m[2], prev |-> pm[2]]])] :
                m \in {<<Num(1), Num(0)>>, <<Num(0), Num(1)>>}, pm \in MacdPairs} :
           x \in {[bars |-> b, raw |-> RawOf(b, NaN, NaN, NaN, NaN)] : b \in FlowBars}}

\* one caller making up to MaxCalls calls in sequence on such a DataFrame
InitBars ==
    /\ \E f \in FlowFrames : bars = f.bars /\ data = f.data
    /\ result = NoResult
    /\ InitCore
    /\ InitIdle
    /\ before = [t \in Threads |-> data.cols]
    /\ left = [t \in Threads |-> IF t = 1 THEN MaxCalls ELSE 0]

SpecBars == InitBars /\ [][Next]_vars

----------------------------------------------------------------------------
(* Python values of the fetched data: a number is Num / Rat, null is None,  *)
(* a string is Str(s), a list is List(items), a dict is a function on its   *)
(* keys                                                                     *)

Str(s) == [str |-> s]
List(items) == [items |-> items]
EmptyDict == [k \in {} |-> None]

\* bool(x): None, 0, "", [] and {} are false
Truthy(x) == x \notin {None, Num(0), Str(""), List(<<>>), EmptyDict}

\* d.get(key, default)
Get(d, key, default) == IF key \in DOMAIN d THEN d[key] ELSE default

\* x[:n] of a list
Slice(x, n) == List(SubSeq(x.items, 1, IF Len(x.items) < n THEN Len(x.items) ELSE n))

----------------------------------------------------------------------------
(* FundamentalAnalyzer *)

\* round(x, places) and the :.2f / :.0f of an f-string on a number x >= 0
\* (half up; the halves of the series below are exact)
Round(x, scale) == Rat((x.num * scale * 2 + Den(x)) \div (2 * Den(x)), scale)

\* _format_market_cap, lines 183-192, on a market cap in millions of
\* dollars: the amount shown and the suffix after it
format_market_cap(market_cap) ==
    IF GE(market_cap, Num(1000000))
    THEN [amount |-> Round(Rat(market_cap.num, Den(market_cap) * 1000000), 100), suffix |-> "T"]
    ELSE IF GE(market_cap, Num(1000))
    THEN [amount |-> Round(Rat(market_cap.num, Den(market_cap) * 1000), 100), suffix |-> "B"]
    ELSE IF GE(market_cap, Num(1))
    THEN [amount |-> Round(market_cap, 100), suffix |-> "M"]
    ELSE [amount |-> Round(Rat(market_cap.num * 1000000, Den(market_cap)), 1), suffix |-> ""]

\* analyze_profile, lines 13-40
analyze_profile(profile) ==
    IF ~Truthy(profile) THEN [available |-> FALSE]
    ELSE [available |-> TRUE,
          company_name |-> Get(profile, "companyName", Str("N/A")),
          sector |-> Get(profile, "sector", Str("N/A")),
          industry |-> Get(profile, "industry", Str("N/A")),
          market_cap |-> Get(profile, "mktCap", Num(0)),
          market_cap_formatted |-> format_market_cap(Get(profile, "mktCap", Num(0))),
          description |-> IF Truthy(Get(profile, "description", None))
                          THEN [cut |-> Get(profile, "description", Str("")), at |-> 200]
                          ELSE Str("N/A"),
          ceo |-> Get(profile, "ceo", Str("N/A")),
          website |-> Get(profile, "website", Str("N/A")),
          exchange |-> Get(profile, "exchangeShortName", Str("N/A")),
          country |-> Get(profile, "country", Str("N/A")),
          employees |-> Get(profile, "fullTimeEmployees", Str("N/A"))]

\* the bands closed on the other side
interpret_pe_inclusive(pe) ==
    IF ~Truthy(pe) \/ LE(pe, Num(0)) THEN "N/A"
    ELSE IF LE(pe, Num(15)) THEN "Undervalued"
    ELSE IF LE(pe, Num(25)) THEN "Fair Value"
    ELSE "Overvalued"

\* _interpret_pe, lines 194-204
interpret_pe(pe) ==
    IF ~Truthy(pe) \/ LE(pe, Num(0)) THEN "N/A"
    ELSE IF LT(pe, Num(15)) THEN "Undervalued"
    ELSE IF LT(pe, Num(25)) THEN "Fair Value"
    ELSE "Overvalued"

\* _interpret_pb, lines 206-216
interpret_pb(pb) ==
    IF ~Truthy(pb) \/ LE(pb, Num(0)) THEN "N/A"
    ELSE IF LT(pb, Num(1)) THEN "Undervalued"
    ELSE IF LT(pb, Num(3)) THEN "Fair Value"
    ELSE "Overvalued"

\* a negative return on equity taken as no figure
interpret_roe_positive_only(roe) ==
    IF ~Truthy(roe) \/ LT(roe, Num(0)) THEN "N/A"
    ELSE LET roe_pct == FMul(roe, 100)
         IN  IF GT(roe_pct, Num(20)) THEN "Excellent"
             ELSE IF GT(roe_pct, Num(15)) THEN "Good"
             ELSE IF GT(roe_pct, Num(10)) THEN "Average"
             ELSE "Poor"

\* _interpret_roe, lines 218-231
interpret_roe(roe) ==
    IF ~Truthy(roe) THEN "N/A"
    ELSE LET roe_pct == FMul(roe, 100)
         IN  IF GT(roe_pct, Num(20)) THEN "Excellent"
             ELSE IF GT(roe_pct, Num(15)) THEN "Good"
             ELSE IF GT(roe_pct, Num(10)) THEN "Average"
             ELSE "Poor"

\* _interpret_debt, lines 233-243
interpret_debt(debt_to_equity) ==
    IF ~Truthy(debt_to_equity) THEN "N/A"
    ELSE IF LT(debt_to_equity, Rat(1, 2)) THEN "Low Debt"
    ELSE IF LT(debt_to_equity, Rat(3, 2)) THEN "Moderate Debt"
    ELSE "High Debt"

\* _interpret_liquidity, lines 245-255
interpret_liquidity(current_ratio) ==
    IF ~Truthy(current_ratio) THEN "N/A"
    ELSE IF GT(current_ratio, Num(2)) THEN "Strong Liquidity"
    ELSE IF GT(current_ratio, Num(1)) THEN "Adequate Liquidity"
    ELSE "Weak Liquidity"

\* `float(x) if x else None`
float_if(x) == IF Truthy(x) THEN x ELSE None

\* analyze_metrics, lines 42-83
analyze_metrics(metrics) ==
    IF ~Truthy(metrics) THEN [available |-> FALSE]
    ELSE LET pe_ratio == Get(metrics, "peRatio", None)
             pb_ratio == Get(metrics, "pbRatio", None)
             debt_to_equity == Get(metrics, "debtToEquity", None)
             roe == Get(metrics, "roe", None)
             roa == Get(metrics, "roa", None)
             current_ratio == Get(metrics, "currentRatio", None)
         IN  [available |-> TRUE,
              valuation |->
                [pe_ratio |-> float_if(pe_ratio),
                 pe_interpretation |-> interpret_pe(pe_ratio),
                 pb_ratio |-> float_if(pb_ratio),
                 pb_interpretation |-> interpret_pb(pb_ratio)],
              profitability |->
                [roe |-> IF Truthy(roe) THEN FMul(roe, 100) ELSE None,
                 roe_interpretation |-> interpret_roe(roe),
                 roa |-> IF Truthy(roa) THEN FMul(roa, 100) ELSE None],
              financial_health |->
                [debt_to_equity |-> float_if(debt_to_equity),
                 debt_interpretation |-> interpret_debt(debt_to_equity),
                 current_ratio |-> float_if(current_ratio),
                 liquidity_interpretation |-> interpret_liquidity(current_ratio)]]

\* analyze_news, lines 85-114
analyze_news(news) ==
    IF ~Truthy(news) THEN [available |-> FALSE, articles |-> List(<<>>)]
    ELSE [available |-> TRUE,
          count |-> Len(news.items),
          articles |->
            List([i \in 1..Len(Slice(news, 5).items) |->
                    [title |-> Get(news.items[i], "title", Str("N/A")),
                     published_date |-> Get(news.items[i], "publishedDate", Str("N/A")),
                     site |-> Get(news.items[i], "site", Str("N/A")),
                     url |-> Get(news.items[i], "url", Str("#"))]]),
          latest_date |-> Get(news.items[1], "publishedDate", Str("N/A"))]

\* the sell guards tested before the buy guards
analyze_ratings_sell_first(ratings) ==
    IF ~Truthy(ratings) THEN [available |-> FALSE]
    ELSE LET buy == Get(ratings, "buy", Num(0)).num
             hold == Get(ratings, "hold", Num(0)).num
             sell == Get(ratings, "sell", Num(0)).num
             total == buy + hold + sell
         IN  IF total = 0 THEN [available |-> FALSE]
             ELSE [available |-> TRUE, buy |-> Num(buy), hold |-> Num(hold),
                   sell |-> Num(sell), total |-> Num(total),
                   consensus |->
                        IF GT(Rat(sell, total), Rat(6, 10)) THEN "Strong Sell"
                        ELSE IF GT(Rat(sell, total), Rat(4, 10)) THEN "Sell"
                        ELSE IF GT(Rat(buy, total), Rat(6, 10)) THEN "Strong Buy"
                        ELSE IF GT(Rat(buy, total), Rat(4, 10)) THEN "Buy"
                        ELSE "Hold",
                   buy_percentage |-> Round(Rat(buy * 100, total), 10),
                   recent_ratings |-> Slice(Get(ratings, "recent", List(<<>>)), 3)]

\* analyze_ratings, lines 116-159, on counts of 0 or more
analyze_ratings(ratings) ==
    IF ~Truthy(ratings) THEN [available |-> FALSE]
    ELSE LET buy == Get(ratings, "buy", Num(0)).num
             hold == Get(ratings, "hold", Num(0)).num
             sell == Get(ratings, "sell", Num(0)).num
             total == buy + hold + sell
         IN  IF total = 0 THEN [available |-> FALSE]
             ELSE [available |-> TRUE, buy |-> Num(buy), hold |-> Num(hold),
                   sell |-> Num(sell), total |-> Num(total),
                   consensus |->
                        IF GT(Rat(buy, total), Rat(6, 10)) THEN "Strong Buy"
                        ELSE IF GT(Rat(buy, total), Rat(4, 10)) THEN "Buy"
                        ELSE IF GT(Rat(sell, total), Rat(6, 10)) THEN "Strong Sell"
                        ELSE IF GT(Rat(sell, total), Rat(4, 10)) THEN "Sell"
                        ELSE "Hold",
                   buy_percentage |-> Round(Rat(buy * 100, total), 10),
                   recent_ratings |-> Slice(Get(ratings, "recent", List(<<>>)), 3)]

\* analyze_earnings, lines 161-180
analyze_earnings(earnings) ==
    IF ~Truthy(earnings) THEN [available |-> FALSE]
    ELSE [available |-> TRUE,
          date |-> Get(earnings, "date", Str("N/A")),
          eps_estimated |-> Get(earnings, "epsEstimated", None),
          revenue_estimated |-> Get(earnings, "revenueEstimated", None)]

\* `market_cap >= 1e12` on None (line 185) and `buy + hold + sell` on a None
\* (line 133) raise TypeError
get_fundamental_summary_raises(d) ==
    \/ /\ Truthy(Get(d, "profile", None))
       /\ Get(Get(d, "profile", None), "mktCap", Num(0)) = None
    \/ /\ Truthy(Get(d, "ratings", None))
       /\ \E k \in {"buy", "hold", "sell"} : Get(Get(d, "ratings", None), k, Num(0)) = None

\* the sections of the mapping that hold data
get_fundamental_summary_present_only(d) ==
    [k \in {"profile", "metrics", "news", "ratings", "earnings"} \cap DOMAIN d |->
        CASE k = "profile" -> analyze_profile(d[k])
          [] k = "metrics" -> analyze_metrics(d[k])
          [] k = "news" -> analyze_news(d[k])
          [] k = "ratings" -> analyze_ratings(d[k])
          [] k = "earnings" -> analyze_earnings(d[k])]

\* get_fundamental_summary, lines 257-273
get_fundamental_summary(d) ==
    [profile |-> analyze_profile(Get(d, "profile", None)),
     metrics |-> analyze_metrics(Get(d, "metrics", None)),
     news |-> analyze_news(Get(d, "news", None)),
     ratings |-> analyze_ratings(Get(d, "ratings", None)),
     earnings |-> analyze_earnings(Get(d, "earnings", None))]

----------------------------------------------------------------------------
(* the fundamental analysis of fetched data: every section absent, null,   *)
(* empty or holding any part of its fields                                 *)

MaxRatings == 5

ProfileKeys ==
    {"companyName", "sector", "industry", "mktCap", "description", "ceo", "website",
     "exchangeShortName", "country", "fullTimeEmployees"}
MetricKeys == {"peRatio", "pbRatio", "debtToEquity", "roe", "roa", "currentRatio"}

\* market caps in millions of dollars, on and around the three thresholds
MarketCaps == {Num(0), Rat(1, 2), Num(1), Rat(1255, 10), Num(1000), Num(1500), Num(1000000), Num(2500000)}

\* a ratio: null, negative, zero, and on and around the thresholds of its bands
MetricValues(k) ==
    {None, Num(-1), Num(0)} \cup
    CASE k = "peRatio" -> {Rat(1, 2), Num(12), Num(15), Num(20), Num(25), Num(30)}
      [] k = "pbRatio" -> {Rat(1, 2), Num(1), Num(2), Num(3), Num(4)}
      [] k = "debtToEquity" -> {Rat(1, 4), Rat(1, 2), Num(1), Rat(3, 2), Num(2)}
      [] k = "roe" -> {Rat(-1, 20), Rat(1, 20), Rat(1, 10), Rat(3, 25), Rat(3, 20), Rat(9, 50),
                       Rat(1, 5), Rat(1, 4)}
      [] k = "roa" -> {Rat(1, 20)}
      [] k = "currentRatio" -> {Rat(1, 2), Num(1), Rat(3, 2), Num(2), Num(3)}

ProfileOf(S) ==
    [k \in S |-> IF k = "mktCap" THEN Num(1500)
                 ELSE IF k = "fullTimeEmployees" THEN Num(100) ELSE Str(k)]

Profiles ==
    {None, EmptyDict}
        \cup {ProfileOf(S) : S \in {ProfileKeys} \cup {{k} : k \in ProfileKeys}
                                    \cup {ProfileKeys \ {k} : k \in ProfileKeys}}
        \cup {[ProfileOf(ProfileKeys) EXCEPT !.mktCap = v] : v \in MarketCaps \cup {None}}
        \cup {[ProfileOf(ProfileKeys) EXCEPT !.description = v] : v \in {None, Str("")}}

Metrics ==
    {None, EmptyDict}
        \cup {[k \in S |-> Num(2)] : S \in SUBSET MetricKeys}
        \cup UNION {{[[j \in MetricKeys |-> Num(2)] EXCEPT ![k] = v] : v \in MetricValues(k)} :
                        k \in MetricKeys}
        \cup UNION {{k :> v : v \in MetricValues(k)} : k \in MetricKeys}

Article(S) == [k \in S |-> Str(k)]
ArticleKeys == {"title", "publishedDate", "site", "url"}

News ==
    {None, List(<<>>)}
        \cup {List(<<Article(S)>>) : S \in SUBSET ArticleKeys}
        \cup {List([i \in 1..n |-> Article(ArticleKeys \ {"publishedDate"})]) : n \in 1..(MaxRatings + 1)}

Grades(n) == List([i \in 1..n |-> [newGrade |-> Str("Buy")]])

\* counts of up to MaxRatings grades each with the grades counted, and
\* mappings without some of the counts or with a null one
Ratings ==
    {None, EmptyDict}
        \cup {[buy |-> Num(b), hold |-> Num(h), sell |-> Num(s), recent |-> Grades(b + h + s)] :
                b \in 0..MaxRatings, h \in 0..MaxRatings, s \in 0..MaxRatings}
        \cup {[k \in S |-> Num(2)] : S \in SUBSET {"buy", "hold", "sell"}}
        \cup {[buy |-> None, hold |-> Num(1), sell |-> Num(1)]}

Earnings ==
    {None, EmptyDict}
        \cup {[k \in S |-> IF k = "date" THEN Str(k) ELSE Num(2)] :
                S \in SUBSET {"date", "epsEstimated", "revenueEstimated"}}

\* what get_comprehensive_data returns without an API key
Unfetched ==
    [profile |-> None, metrics |-> None, news |-> List(<<>>), ratings |-> None,
     earnings |-> None]

Fetched ==
    [profile |-> ProfileOf(ProfileKeys), metrics |-> [j \in MetricKeys |-> Num(2)],
     news |-> List(<<Article(ArticleKeys)>>), ratings |-> [buy |-> Num(3), hold |-> Num(1), sell |-> Num(1)],
     earnings |-> [date |-> Str("date")]]

FmpData ==
    {[k \in S |-> Fetched[k]] : S \in SUBSET DOMAIN Fetched}
        \cup {[Unfetched EXCEPT !.profile = v] : v \in Profiles}
        \cup {[Unfetched EXCEPT !.metrics = v] : v \in Metrics}
        \cup {[Unfetched EXCEPT !.news = v] : v \in News}
        \cup {[Unfetched EXCEPT !.ratings = v] : v \in Ratings}
        \cup {[Unfetched EXCEPT !.earnings = v] : v \in Earnings}

InitFundamental ==
    /\ fmp_data \in FmpData
    /\ gemini = NoAnalyst
    /\ bars = NoBars
    /\ result = NoResult
    /\ data = EmptyFrame
    /\ InitIdle
    /\ before = [t \in Threads |-> data.cols]
    /\ left = [t \in Threads |-> 0]

\* analyze_metrics on the metrics fetched, which no null makes raise
AnalyzeMetrics ==
    /\ result = NoResult
    /\ result' = [op |-> "analyze_metrics", kind |-> "return",
                  out |-> analyze_metrics(Get(fmp_data, "metrics", None))]
    /\ UNCHANGED <<call_vars, bars, fmp_data, gemini>>

\* analyze_ratings on the ratings fetched
AnalyzeRatings ==
    /\ result = NoResult
    /\ result' =
        IF get_fundamental_summary_raises([ratings |-> Get(fmp_data, "ratings", None)])
        THEN [op |-> "analyze_ratings", kind |-> "raise", out |-> "TypeError"]
        ELSE [op |-> "analyze_ratings", kind |-> "return",
              out |-> analyze_ratings(Get(fmp_data, "ratings", None))]
    /\ UNCHANGED <<call_vars, bars, fmp_data, gemini>>

\* get_fundamental_summary(fmp_data)
GetFundamentalSummary ==
    /\ result = NoResult
    /\ result' =
        IF get_fundamental_summary_raises(fmp_data)
        THEN [op |-> "get_fundamental_summary", kind |-> "raise", out |-> "TypeError"]
        ELSE [op |-> "get_fundamental_summary", kind |-> "return",
              out |-> get_fundamental_summary(fmp_data)]
    /\ UNCHANGED <<call_vars, bars, fmp_data, gemini>>

NextFundamental == AnalyzeMetrics \/ AnalyzeRatings \/ GetFundamentalSummary

SpecFundamental == InitFundamental /\ [][NextFundamental]_vars

----------------------------------------------------------------------------
(* GeminiAnalyst.  The text of an answer is a sequence of pieces: a fence   *)
(* "```json" or "```", white space, prose, or the text of one JSON value    *)

Fence(lang) == [fence |-> lang]
Space == [space |-> TRUE]
Prose == Str("prose")
Json(value) == [json |-> value]

\* a JSON string, by the required field names that occur in it
Text(words) == [words |-> words]

IsFence(piece) == "fence" \in DOMAIN piece

\* s.split(sep)[1].split('```')[0], sep being '```json' or '```': the pieces
\* after the first sep up to the next fence of either kind (a '```json' ends
\* the first split, a '```' the second)
RECURSIVE UpToFence(_)
UpToFence(text) ==
    IF text = <<>> \/ IsFence(text[1]) THEN <<>> ELSE <<text[1]>> \o UpToFence(Tail(text))

RECURSIVE AfterFirst(_, _)
AfterFirst(text, sep) ==
    IF text[1] = sep THEN UpToFence(Tail(text)) ELSE AfterFirst(Tail(text), sep)

\* str.strip()
RECURSIVE strip(_)
strip(text) ==
    IF text = <<>> THEN text
    ELSE IF text[1] = Space THEN strip(Tail(text))
    ELSE IF text[Len(text)] = Space THEN strip(SubSeq(text, 1, Len(text) - 1))
    ELSE text

\* json.loads: the text of one JSON value is that value, anything else (no
\* text, prose, a value among other text) is a JSONDecodeError
json_decode_error(json_str) == Len(json_str) # 1 \/ "json" \notin DOMAIN json_str[1]
json_loads(json_str) == json_str[1].json

\* lines 188-193
extract_json(response_text) ==
    IF \E i \in 1..Len(response_text) : response_text[i] = Fence("json")
    THEN strip(AfterFirst(response_text, Fence("json")))
    ELSE IF \E i \in 1..Len(response_text) : IsFence(response_text[i])
    THEN strip(AfterFirst(response_text, Fence("")))
    ELSE strip(response_text)

required_fields == {"recommendation", "confidence", "reasoning"}

\* `field not in analysis` for some required field, lines 200-202: the keys
\* of an object, the items of a list, the substrings of a string; on a
\* number, a boolean or null it raises TypeError, and a missing field
\* ValueError
IsObject(analysis) ==
    /\ analysis \notin {None, EmptyDict}
    /\ DOMAIN analysis \cap {"num", "den", "items", "words", "none"} = {}
validation_raises(analysis) ==
    IF analysis = EmptyDict \/ IsObject(analysis) THEN ~(required_fields \subseteq DOMAIN analysis)
    ELSE IF "words" \in DOMAIN analysis THEN ~(required_fields \subseteq analysis.words)
    ELSE TRUE

\* lines 209-218
Fallback ==
    [recommendation |-> Str("HOLD"),
     confidence |-> Num(5),
     reasoning |-> Str("Unable to generate detailed analysis. Please try again."),
     entry_point |-> [price |-> None, rationale |-> Str("N/A")],
     stop_loss |-> [price |-> None, rationale |-> Str("N/A")],
     target_price |-> [price_3month |-> None, upside_potential |-> None,
                       rationale |-> Str("N/A")],
     risk_factors |-> List(<<Str("Analysis unavailable")>>),
     catalysts |-> List(<<Str("Analysis unavailable")>>)]

\* _parse_response, lines 183-221: JSONDecodeError is answered by the
\* fallback of lines 209-218, any other exception by None (line 221)
parse_response(response_text) ==
    IF json_decode_error(extract_json(response_text)) THEN Fallback
    ELSE IF validation_raises(json_loads(extract_json(response_text))) THEN None
    ELSE json_loads(extract_json(response_text))

\* line 92, `{rsi:.1f if rsi else 'N/A'}`: all the text after the colon is
\* the format specification, which a float refuses (ValueError) and None
\* too (TypeError)
rsi_format_raises(rsi) == rsi = None \/ "num" \in DOMAIN rsi

\* _build_analysis_prompt, lines 65-181, raises: KeyError on line 74 for a
\* summary without indicators, and the f-string of lines 87-100
build_analysis_prompt_raises(technical, fundamental) ==
    \/ "indicators" \notin DOMAIN technical
    \/ rsi_format_raises(Get(technical.indicators, "rsi", None))

\* the prompt by what it is built from: the figures of the technical summary
\* and the sections of the fundamental summary that say they are available
build_analysis_prompt(ticker, technical, fundamental) ==
    [ticker |-> ticker,
     current_price |-> Get(technical, "current_price", Num(0)),
     trend |-> Get(technical, "trend", "Unknown"),
     overall |-> Get(Get(technical, "signals", EmptyDict), "overall", "NEUTRAL"),
     sections |->
        {k \in {"profile", "metrics", "ratings", "news"} :
            /\ Get(Get(fundamental, k, EmptyDict), "available", FALSE)
            /\ k = "news" => Truthy(Get(fundamental[k], "articles", None))}]

\* analyze_stock, lines 31-63: what it returns and how often the service
\* has been asked by then; every exception of lines 51-57 ends on line 63
analyze_stock(analyst, ticker, technical, fundamental) ==
    IF ~analyst.enabled THEN [out |-> None, asked |-> analyst.asked]
    ELSE IF build_analysis_prompt_raises(technical, fundamental)
    THEN [out |-> None, asked |-> analyst.asked]
    ELSE IF "raises" \in DOMAIN analyst.service
    THEN [out |-> None, asked |-> analyst.asked + 1]
    ELSE [out |-> parse_response(analyst.service.text), asked |-> analyst.asked + 1]

----------------------------------------------------------------------------
(* the analyst, enabled or not, with a service that raises or answers one   *)
(* of the texts below                                                       *)

\* a JSON object with these of the required fields, and one more
Analysis(S) ==
    [k \in S \cup {"catalysts"} |->
        IF k = "recommendation" THEN Str("BUY")
        ELSE IF k = "confidence" THEN Num(7)
        ELSE IF k = "reasoning" THEN Str("reasoning")
        ELSE List(<<>>)]

\* the JSON values of an answer: objects, a list, a number, null, strings
Payloads ==
    {Analysis(S) : S \in SUBSET required_fields}
        \cup {EmptyDict, List(<<>>), Num(5), None, Text({}), Text(required_fields)}

\* the text p bare, padded, fenced either way, with prose around the fence,
\* with prose before it, and in a fence left open
Wrapped(p) ==
    {<<p>>, <<Space, p, Space>>,
     <<Fence("json"), Space, p, Space, Fence("")>>,
     <<Fence(""), Space, p, Space, Fence("")>>,
     <<Prose, Space, Fence("json"), p, Fence(""), Space, Prose>>,
     <<Prose, Fence(""), Prose, Fence(""), Fence("json"), p, Fence("")>>,
     <<Prose, Space, p>>,
     <<Fence("json"), p>>}

Responses ==
    UNION {Wrapped(Json(p)) : p \in Payloads}
        \cup Wrapped(Prose) \cup {<<>>, <<Space>>, <<Fence("json")>>, <<Fence("")>>}

Services == {[raises |-> "Exception"]} \cup {[text |-> x] : x \in Responses}

\* summaries of a series too short and of series long enough
TechnicalData == {get_technical_summary(Frame(n, raw)).value : n \in {0, MinBars}, raw \in ConcRaws}

FundamentalData == {get_fundamental_summary(Unfetched), get_fundamental_summary(Fetched)}

InitGemini ==
    /\ gemini \in {[enabled |-> b, service |-> x, asked |-> 0] : b \in BOOLEAN, x \in Services}
    /\ fmp_data = NoFmpData
    /\ bars = NoBars
    /\ result = NoResult
    /\ data = EmptyFrame
    /\ InitIdle
    /\ before = [t \in Threads |-> data.cols]
    /\ left = [t \in Threads |-> 0]

\* _parse_response on the text the service answers
ParseResponse ==
    /\ result = NoResult
    /\ "text" \in DOMAIN gemini.service
    /\ result' = [op |-> "_parse_response", out |-> parse_response(gemini.service.text)]
    /\ UNCHANGED <<call_vars, bars, fmp_data, gemini>>

\* analyze_stock(ticker, technical_data, fundamental_data)
AnalyzeStock(technical, fundamental) ==
    /\ result = NoResult
    /\ result' = [op |-> "analyze_stock", technical |-> technical, fundamental |-> fundamental,
                  out |-> analyze_stock(gemini, "TICKER", technical, fundamental).out]
    /\ gemini' = [gemini EXCEPT
                    !.asked = analyze_stock(gemini, "TICKER", technical, fundamental).asked]
    /\ UNCHANGED <<call_vars, bars, fmp_data>>

NextGemini ==
    \/ ParseResponse
    \/ \E technical \in TechnicalData, fundamental \in FundamentalData :
            AnalyzeStock(technical, fundamental)

SpecGemini == InitGemini /\ [][NextGemini]_vars

----------------------------------------------------------------------------
(* properties *)

Range(q) == {q[i] : i \in 1..Len(q)}

\* thread t's call is over
Finished(t) == pc[t] = "idle" /\ outcome[t].kind # "pending"

\* ... and returned a full summary
Full(t) ==
    /\ Finished(t)
    /\ outcome[t].kind = "return"
    /\ "error" \notin DOMAIN outcome[t].value

FullFields ==
    {"current_price", "previous_close", "change_pct", "volume", "volume_analysis", "trend",
     "indicators", "support_levels", "resistance_levels", "signals", "volatility"}

\* C1: a call on a series that is empty or has fewer than 50 bars returns the
\* insufficient-data error and nothing else (no trend, indicators or signals);
\* a call on 50 or more bars returns a full result with no error field.
C1_GateAtFiftyBars ==
    \A t \in Threads :
        Finished(t) =>
            /\ outcome[t].kind = "return"
            /\ IF Len(data.cols) = 0 \/ data.n <= 49
               THEN /\ DOMAIN outcome[t].value = {"error"}
                    /\ outcome[t].value = InsufficientData
               ELSE /\ "error" \notin DOMAIN outcome[t].value
                    /\ FullFields \subseteq DOMAIN outcome[t].value

\* C1 witness: a call on exactly 50 bars has returned a full result
C1_Witness == \E t \in Threads : Full(t) /\ data.n = 50

\* C2: after any call the series passed in has the same columns and values
\* as before the call.
C2_InputReadOnly ==
    \A t \in Threads : Finished(t) => data.cols = before[t]

\* C3: of two calls running concurrently on the same series, each returns what
\* it returns when run alone on that series.
C3_ConcurrentAsAlone ==
    \A t \in Threads :
        Finished(t) => outcome[t] = get_technical_summary(Frame(data.n, data.raw))

\* C4: the recommendation is a total function of the score: >= 3 strong buy,
\* 1 or 2 buy, <= -3 strong sell, -2 or -1 sell, and NEUTRAL exactly for 0.
C4_RecommendationFromScore ==
    \A t \in Threads :
        Full(t) =>
            LET sg == outcome[t].value.signals
                score == sg.strength
            IN  /\ score >= 3 => sg.overall = "STRONG BUY"
                /\ score \in {1, 2} => sg.overall = "BUY"
                /\ score <= -3 => sg.overall = "STRONG SELL"
                /\ score \in {-2, -1} => sg.overall = "SELL"
                /\ sg.overall = "NEUTRAL" <=> score = 0

\* C4 witness: score 5 gave strong buy with strength 5
C4_Witness ==
    \E t \in Threads :
        /\ Full(t)
        /\ outcome[t].value.signals.strength = 5
        /\ outcome[t].value.signals.overall = "STRONG BUY"

\* what the scoring rules of the three indicators are stated to contribute
RsiPoints(row) ==
    IF GT(Val(row, "RSI"), Num(70)) THEN -2
    ELSE IF LT(Val(row, "RSI"), Num(30)) THEN 2 ELSE 0

MacdPoints(label) ==
    IF label = "Bullish Crossover" THEN 3
    ELSE IF label = "Bearish Crossover" THEN -3 ELSE 0

MaPoints(row) ==
    IF GT(Val(row, "Close"), Val(row, "SMA_20")) /\ GT(Val(row, "SMA_20"), Val(row, "SMA_50"))
    THEN 2
    ELSE IF LT(Val(row, "Close"), Val(row, "SMA_20"))
            /\ LT(Val(row, "SMA_20"), Val(row, "SMA_50"))
    THEN -2 ELSE 0

\* C5: the score is the sum of the contributions of the RSI, MACD and
\* moving-average rules, each evaluated whatever the others did, and each
\* rule that fires leaves its reason.
C5_ScoreIsSumOfRules ==
    \A t \in Threads :
        Full(t) =>
            LET v == outcome[t].value
                row == t_latest[t]
                reasons == Range(v.signals.reasons)
            IN  /\ v.signals.strength =
                        RsiPoints(row) + MacdPoints(v.indicators.macd_interpretation)
                        + MaPoints(row)
                /\ "RSI Overbought" \in reasons <=> RsiPoints(row) = -2
                /\ "RSI Oversold" \in reasons <=> RsiPoints(row) = 2
                /\ "Price Above Key MAs" \in reasons <=> MaPoints(row) = 2
                /\ "Price Below Key MAs" \in reasons <=> MaPoints(row) = -2

\* C5 witness: an oversold RSI and a bullish crossover fired on the same bar
C5_Witness ==
    \E t \in Threads :
        /\ Full(t)
        /\ outcome[t].value.indicators.rsi_signal = "Oversold"
        /\ outcome[t].value.indicators.macd_interpretation = "Bullish Crossover"
        /\ {"RSI Oversold", "MACD Bullish Crossover"}
                \subseteq Range(outcome[t].value.signals.reasons)

\* the accumulator of _generate_signals after its last rule
RawScore(latest, prev) ==
    ma_signals(macd_signals(rsi_signals(new_signals, latest), latest, prev), latest).score

\* C6: strength is the raw score, within [-10, 10], and never beyond 7 in
\* absolute value.
C6_StrengthIsRawScore ==
    \A t \in Threads :
        Full(t) =>
            LET strength == outcome[t].value.signals.strength
            IN  /\ strength = RawScore(t_latest[t], t_prev[t])
                /\ strength \in -10..10
                /\ strength \in -7..7

\* C6 witness: every bullish rule fired, strength 7
C6_Witness ==
    \E t \in Threads : Full(t) /\ outcome[t].value.signals.strength = 7

Overalls == {"STRONG BUY", "BUY", "NEUTRAL", "SELL", "STRONG SELL"}

\* C7: past the gate an undefined RSI, SMA20, SMA50 or MACD adds nothing to
\* the score and no reason, the other rules still count, and the call
\* returns a well-formed signal result.
C7_UndefinedIsNoOp ==
    \A t \in Threads :
        Finished(t) /\ data.n >= 50 =>
            /\ Full(t)
            /\ LET v == outcome[t].value
                   row == t_latest[t]
                   reasons == Range(v.signals.reasons)
                   macdPts == MacdPoints(v.indicators.macd_interpretation)
               IN  /\ v.signals.overall \in Overalls
                   /\ v.signals.strength \in Int
                   /\ isna(Val(row, "RSI")) =>
                        /\ reasons \cap {"RSI Overbought", "RSI Oversold"} = {}
                        /\ v.signals.strength = macdPts + MaPoints(row)
                   /\ isna(Val(row, "MACD")) \/ isna(Val(row, "MACD_Signal")) =>
                        /\ reasons \cap {"MACD Bullish Crossover", "MACD Bearish Crossover"} = {}
                        /\ v.signals.strength = RsiPoints(row) + MaPoints(row)
                   /\ isna(Val(row, "SMA_20")) \/ isna(Val(row, "SMA_50")) =>
                        /\ reasons \cap {"Price Above Key MAs", "Price Below Key MAs"} = {}
                        /\ v.signals.strength = RsiPoints(row) + macdPts

\* C7 witness: RSI and both averages undefined, the MACD crossover counted
C7_Witness ==
    \E t \in Threads :
        /\ Full(t)
        /\ isna(Val(t_latest[t], "RSI"))
        /\ isna(Val(t_latest[t], "SMA_20"))
        /\ isna(Val(t_latest[t], "SMA_50"))
        /\ outcome[t].value.signals.strength = 3
        /\ outcome[t].value.signals.reasons = <<"MACD Bullish Crossover">>

\* C8: trend is Unknown iff an average is undefined; otherwise Strong Uptrend
\* iff close > SMA20 > SMA50, Uptrend iff close > SMA20 and not SMA20 > SMA50,
\* Strong Downtrend iff close < SMA20 < SMA50, Downtrend iff close < SMA20 and
\* not SMA20 < SMA50, Sideways iff close = SMA20.
C8_TrendClassification ==
    \A t \in Threads :
        Full(t) =>
            LET tr == outcome[t].value.trend
                c == Val(t_latest[t], "Close")
                a == Val(t_latest[t], "SMA_20")
                b == Val(t_latest[t], "SMA_50")
            IN  IF isna(a) \/ isna(b) THEN tr = "Unknown"
                ELSE /\ tr = "Strong Uptrend" <=> c.num > a.num /\ a.num > b.num
                     /\ tr = "Uptrend" <=> c.num > a.num /\ ~(a.num > b.num)
                     /\ tr = "Strong Downtrend" <=> c.num < a.num /\ a.num < b.num
                     /\ tr = "Downtrend" <=> c.num < a.num /\ ~(a.num < b.num)
                     /\ tr = "Sideways" <=> c.num = a.num

\* C8 witness: close above SMA20 with SMA20 equal to SMA50 is a plain Uptrend
C8_Witness ==
    \E t \in Threads :
        /\ Full(t)
        /\ outcome[t].value.trend = "Uptrend"
        /\ Val(t_latest[t], "SMA_20") = Val(t_latest[t], "SMA_50")
        /\ notna(Val(t_latest[t], "SMA_20"))

\* the sign of macd_line - signal_line on a row; 2 when it is undefined
DiffSign(row) ==
    LET m == Val(row, "MACD")
        g == Val(row, "MACD_Signal")
    IN  IF isna(m) \/ isna(g) THEN 2
        ELSE IF m.num > g.num THEN 1
        ELSE IF m.num < g.num THEN -1 ELSE 0

\* C9: the MACD label is Unknown when a current value is undefined; Bullish
\* Crossover when the difference goes from negative-or-zero to positive;
\* Bearish Crossover on the reverse transition; otherwise Bullish if the
\* line is above its signal and Bearish if not.
C9_MacdCrossover ==
    \A t \in Threads :
        Full(t) =>
            LET label == outcome[t].value.indicators.macd_interpretation
                now == DiffSign(t_latest[t])
                was == DiffSign(t_prev[t])
            IN  label =
                    IF now = 2 THEN "Unknown"
                    ELSE IF was \in {-1, 0} /\ now = 1 THEN "Bullish Crossover"
                    ELSE IF was = 1 /\ now \in {-1, 0} THEN "Bearish Crossover"
                    ELSE IF now = 1 THEN "Bullish"
                    ELSE "Bearish"

\* C10: the RSI label is Unknown iff RSI is undefined, Overbought iff RSI > 70,
\* Oversold iff RSI < 30, Neutral for every RSI in [30, 70].
C10_RsiInterpretation ==
    \A t \in Threads :
        Full(t) =>
            LET label == outcome[t].value.indicators.rsi_signal
                rsi == Val(t_latest[t], "RSI")
            IN  /\ label = "Unknown" <=> isna(rsi)
                /\ label = "Overbought" <=> notna(rsi) /\ rsi.num > 70
                /\ label = "Oversold" <=> notna(rsi) /\ rsi.num < 30
                /\ label = "Neutral" <=> notna(rsi) /\ rsi.num >= 30 /\ rsi.num <= 70

\* C10 witness: RSI exactly 70 read as Neutral
C10_Witness ==
    \E t \in Threads :
        /\ Full(t)
        /\ Val(t_latest[t], "RSI") = Num(70)
        /\ outcome[t].value.indicators.rsi_signal = "Neutral"

----------------------------------------------------------------------------
(* the fields of the summary *)

IsNumber(x) == "num" \in DOMAIN x

IndicatorNumbers ==
    {"rsi", "macd", "macd_signal", "macd_histogram", "sma_20", "sma_50", "sma_200",
     "bb_upper", "bb_lower", "atr"}

\* C11: in the summary of a series of 50 or more bars every numeric field
\* (the ten indicator values, change_pct, the volume ratio and the annualized
\* volatility) is a number or, for an indicator, None; none of them is NaN.
C11_NoNaNField ==
    \A t \in Threads :
        Full(t) =>
            LET v == outcome[t].value
            IN  /\ \A k \in IndicatorNumbers :
                    v.indicators[k] = None \/ IsNumber(v.indicators[k])
                /\ v.indicators.rsi = None => v.indicators.rsi_signal = "Unknown"
                /\ IsNumber(v.change_pct)
                /\ "ratio" \in DOMAIN v.volume_analysis /\ IsNumber(v.volume_analysis.ratio)
                /\ "annualized_20d" \in DOMAIN v.volatility
                /\ IsNumber(v.volatility.annualized_20d)

\* C11 witness: a summary of a flat series, with RSI and the 200-bar average
\* undefined and shown as None beside a defined 50-bar average
C11_Witness ==
    \E t \in Threads :
        /\ Full(t)
        /\ outcome[t].value.indicators.rsi = None
        /\ outcome[t].value.indicators.sma_200 = None
        /\ IsNumber(outcome[t].value.indicators.sma_50)
        /\ IsNumber(outcome[t].value.volatility.annualized_20d)

\* C12: calling get_technical_summary again with the same series, the very
\* DataFrame of an earlier call included, returns the same signals (overall,
\* strength, reasons) as a call on the series as first passed in.
C12_SignalsIdempotent ==
    \A t \in Threads :
        Finished(t) =>
            /\ outcome[t].kind = "return"
            /\ Full(t) =>
                    outcome[t].value.signals
                        = get_technical_summary(Frame(data.n, data.raw)).value.signals

\* C12 witness: a call made on the DataFrame an earlier call had been made
\* on, its derived columns in place, has returned its signals
C12_Witness ==
    \E t \in Threads :
        /\ Full(t)
        /\ left[t] <= MaxCalls - 2
        /\ Len(before[t]) = Len(RawLabels) + Len(Assigned)
        /\ outcome[t].value.signals.strength # 0

----------------------------------------------------------------------------
(* the indicator functions *)

\* bar k has the full centered window of w bars around it inside the series
Centered(xs, w, k) == k - (w \div 2) >= 1 /\ k + ((w - 1) \div 2) <= Len(xs)

\* the lows that are the least of their centered window, and the highs that
\* are the greatest of theirs
SupportLevels(low, w) ==
    {low[k] : k \in {i \in 1..Len(low) :
        /\ Centered(low, w, i)
        /\ \A j \in (i - (w \div 2))..(i + ((w - 1) \div 2)) : LE(low[i], low[j])}}

ResistanceLevels(high, w) ==
    {high[k] : k \in {i \in 1..Len(high) :
        /\ Centered(high, w, i)
        /\ \A j \in (i - (w \div 2))..(i + ((w - 1) \div 2)) : GE(high[i], high[j])}}

\* q lists, in strictly ascending order, the five highest of the levels of Q,
\* or all of them when there are five or fewer
FiveHighest(q, Q) ==
    /\ Len(q) <= 5
    /\ \A i, j \in 1..Len(q) : i < j => LT(q[i], q[j])
    /\ Range(q) \subseteq Q
    /\ Len(q) = (IF Cardinality(Q) <= 5 THEN Cardinality(Q) ELSE 5)
    /\ \A x \in Q \ Range(q) : \A y \in Range(q) : LT(x, y)

\* C13: find_support_resistance(window) returns two empty lists for a series
\* of fewer than 2 * window bars; otherwise the support list holds at most 5
\* levels in strictly ascending order, each the low of a bar that is the least
\* low of its centered window of `window` bars, and they are the 5 highest of
\* such levels (all of them when there are 5 or fewer); the resistance list
\* is the same for highs and window maxima.
C13_SupportResistance ==
    result.op = "find_support_resistance" =>
        IF Len(bars.Low) < 2 * result.period
        THEN result.out = <<<<>>, <<>>>>
        ELSE /\ FiveHighest(result.out[1], SupportLevels(bars.Low, result.period))
             /\ FiveHighest(result.out[2], ResistanceLevels(bars.High, result.period))

\* C13 witness: more than five support levels qualified and five were kept
C13_Witness ==
    /\ result.op = "find_support_resistance"
    /\ Len(bars.Low) >= 2 * result.period
    /\ Cardinality(SupportLevels(bars.Low, result.period)) > 5
    /\ Len(result.out[1]) = 5
    /\ Len(result.out[2]) = 5

\* C14: SMA(n) is undefined on the first n - 1 bars and on every later bar is
\* the arithmetic mean of the closes of that bar and the n - 1 before it; so
\* the summary of a series of 50 to 199 bars shows sma_20 and sma_50 as
\* numbers and sma_200 as None.
C14_SmaWindow ==
    result.op = "calculate_sma" =>
        LET n == result.period
            close == bars.Close
            closes == [k \in 1..Len(close) |-> close[k].num]
        IN  /\ Len(result.out) = Len(close)
            /\ \A i \in 1..Len(close) :
                    IF i < n THEN result.out[i] = NaN
                    ELSE /\ IsNumber(result.out[i])
                         /\ result.out[i].num * n
                                = Den(result.out[i]) * ISum(closes, i - n + 1, i)
            /\ Len(close) \in 50..199 =>
                    /\ n \in {20, 50} => IsNumber(result.shown)
                    /\ n = 200 => result.shown = None

\* C14 witness: SMA(50) over 199 bars, undefined on bar 49, defined on bar 50
\* and shown as a number
C14_Witness ==
    /\ result.op = "calculate_sma"
    /\ result.period = 50
    /\ Len(bars.Close) = 199
    /\ result.out[49] = NaN
    /\ IsNumber(result.out[50])
    /\ IsNumber(result.shown)

\* the rises and the falls of the close over the `period` bars up to bar i,
\* summed (bar 1 rises and falls by nothing)
Rises(close, period, i) ==
    ISum([k \in 1..Len(close) |->
            IF k > 1 /\ close[k].num > close[k - 1].num
            THEN close[k].num - close[k - 1].num ELSE 0], i - period + 1, i)

Falls(close, period, i) ==
    ISum([k \in 1..Len(close) |->
            IF k > 1 /\ close[k].num < close[k - 1].num
            THEN close[k - 1].num - close[k].num ELSE 0], i - period + 1, i)

\* C15: every defined RSI value lies in [0, 100], and RSI is 100 exactly when
\* the rolling average loss is 0 and the rolling average gain is above 0.
C15_RsiRange ==
    result.op = "calculate_rsi" =>
        \A i \in 1..Len(bars.Close) :
            LET v == result.out[i]
                windowed == i >= result.period
            IN  /\ notna(v) => IsNumber(v) /\ GE(v, Num(0)) /\ LE(v, Num(100))
                /\ v = Num(100) <=>
                        /\ windowed
                        /\ Falls(bars.Close, result.period, i) = 0
                        /\ Rises(bars.Close, result.period, i) > 0

\* C15 witness: an RSI series with a value of 100, a value of 0 and a value
\* strictly between
C15_Witness ==
    /\ result.op = "calculate_rsi"
    /\ \E i, j, k \in 1..Len(bars.Close) :
            /\ result.out[i] = Num(100)
            /\ result.out[j] = Num(0)
            /\ GT(result.out[k], Num(0)) /\ LT(result.out[k], Num(100))

\* C16: RSI(period) is undefined on every bar with fewer than `period`
\* close-to-close deltas behind it, that is on the first `period` bars (the
\* first bar has no delta); no value is an average over a placeholder for the
\* missing first delta.
C16_RsiNeedsPeriodDeltas ==
    result.op = "calculate_rsi" =>
        \A i \in 1..Len(bars.Close) : i <= result.period => result.out[i] = NaN

\* C17: on every bar where the Bollinger Bands are defined, upper >= middle
\* >= lower, with equality only when the closes of the window do not deviate
\* (their standard deviation is 0); the middle band is SMA(period) over the
\* same window, and the bands lie as far above as below it.
C17_BollingerBands ==
    result.op = "calculate_bollinger_bands" =>
        LET n == result.period
            close == bars.Close
            closes == [k \in 1..Len(close) |-> close[k].num]
        IN  \A i \in 1..Len(close) :
                LET upper == result.out[1][i]
                    middle == result.out[2][i]
                    lower == result.out[3][i]
                IN  /\ IF i < n THEN middle = NaN
                       ELSE middle.num * n = Den(middle) * ISum(closes, i - n + 1, i)
                    /\ notna(upper) /\ notna(lower) =>
                            /\ i >= n
                            /\ GE(upper, middle) /\ GE(middle, lower)
                            /\ FSub(upper, middle) = FSub(middle, lower)
                            /\ upper = middle \/ middle = lower =>
                                    \A k \in (i - n + 1)..i : closes[k] = closes[i]

\* C17 witness: bands apart on one bar and fallen together, on a window of
\* equal closes, on another
C17_Witness ==
    /\ result.op = "calculate_bollinger_bands"
    /\ \E i, j \in 1..Len(bars.Close) :
            /\ GT(result.out[1][i], result.out[2][i])
            /\ GT(result.out[2][i], result.out[3][i])
            /\ IsNumber(result.out[1][j])
            /\ result.out[1][j] = result.out[3][j]

\* C18: the volume analysis of 20 or more bars has ratio = current volume /
\* mean volume of the last 20 bars (where that mean is above 0) and status
\* High iff ratio > 1.5, Normal iff 0.5 < ratio <= 1.5, Low iff ratio <= 0.5;
\* with fewer than 20 bars it is the insufficient-data status alone.
C18_VolumeStatus ==
    result.op = "_analyze_volume" =>
        LET volumes == [k \in 1..Len(bars.Volume) |-> bars.Volume[k].num]
            n == Len(volumes)
            out == result.out
        IN  IF n < 20 THEN out = [status |-> "Insufficient data"]
            ELSE /\ ISum(volumes, n - 19, n) > 0 =>
                        out.ratio.num * ISum(volumes, n - 19, n)
                            = Den(out.ratio) * volumes[n] * 20
                 /\ out.status \in {"High", "Normal", "Low"}
                 /\ out.status = "High" <=> GT(out.ratio, Rat(3, 2))
                 /\ out.status = "Normal" <=>
                        GT(out.ratio, Rat(1, 2)) /\ LE(out.ratio, Rat(3, 2))
                 /\ out.status = "Low" <=> LE(out.ratio, Rat(1, 2))

\* C18 witness: a last volume of one and a half times the 20-bar mean is
\* Normal
C18_Witness ==
    /\ result.op = "_analyze_volume"
    /\ Len(bars.Volume) >= 20
    /\ result.out.ratio = Rat(3, 2)
    /\ result.out.status = "Normal"

\* C19: the volatility of 20 or more bars has status High iff the annualized
\* 20-bar volatility is > 40, Moderate iff it is > 20 and <= 40, Low iff it
\* is <= 20 (it is a number, 0 when the last 21 closes are equal); with
\* fewer than 20 bars it is the insufficient-data status alone.
C19_VolatilityStatus ==
    result.op = "_calculate_volatility" =>
        LET close == bars.Close
            n == Len(close)
            out == result.out
        IN  IF n < 20 THEN out = [status |-> "Insufficient data"]
            ELSE /\ DOMAIN out = {"annualized_20d", "status"}
                 /\ IsNumber(out.annualized_20d)
                 /\ GE(out.annualized_20d, Num(0))
                 /\ (\A k \in 1..n : k >= n - 20 => close[k] = close[n]) =>
                        out.annualized_20d = Num(0)
                 /\ out.status \in {"High", "Moderate", "Low"}
                 /\ out.status = "High" <=> GT(out.annualized_20d, Num(40))
                 /\ out.status = "Moderate" <=>
                        GT(out.annualized_20d, Num(20)) /\ LE(out.annualized_20d, Num(40))
                 /\ out.status = "Low" <=> LE(out.annualized_20d, Num(20))

\* C19 witness: closes swinging by 4% a bar are highly volatile
C19_Witness ==
    /\ result.op = "_calculate_volatility"
    /\ Len(bars.Close) >= 20
    /\ result.out.status = "High"
    /\ GT(result.out.annualized_20d, Num(40))

----------------------------------------------------------------------------
(* the summary of a rising series *)

\* closes flat and then strictly rising on each of the last 30 bars
FlatThenRising(close) ==
    LET n == Len(close)
    IN  /\ n >= MinBars
        /\ \A i \in 2..n :
                IF i > n - 30 THEN GT(close[i], close[i - 1]) ELSE close[i] = close[i - 1]

\* C20: the summary of at least 50 bars whose close is flat and then rises
\* strictly on each of the last 30 bars has the trend "Strong Uptrend" and
\* an RSI of 100.
C20_RisingSeries ==
    \A t \in Threads :
        Full(t) /\ FlatThenRising(bars.Close) =>
            /\ outcome[t].value.trend = "Strong Uptrend"
            /\ outcome[t].value.indicators.rsi = Num(100)

\* C20 witness: the summary of such a series rising by uneven steps
C20_Witness ==
    \E t \in Threads :
        /\ Full(t)
        /\ FlatThenRising(bars.Close)
        /\ \E i \in 3..Len(bars.Close) :
                /\ GT(bars.Close[i - 1], bars.Close[i - 2])
                /\ FSub(bars.Close[i], bars.Close[i - 1])
                        # FSub(bars.Close[i - 1], bars.Close[i - 2])
        /\ outcome[t].value.trend = "Strong Uptrend"
        /\ outcome[t].value.indicators.rsi = Num(100)

----------------------------------------------------------------------------
(* the summary of a flat series *)

\* every close of the series is the same
Flat(close) == \A i \in 1..Len(close) : close[i] = close[1]

\* C21: the summary of a series with a constant close (60 bars, and any
\* length that gets a summary) has no RSI (None, "Unknown"), both Bollinger
\* bands on the close, and the volatility status "Low".
C21_FlatSeries ==
    \A t \in Threads :
        Full(t) /\ Flat(bars.Close) =>
            LET v == outcome[t].value
            IN  /\ v.indicators.rsi = None
                /\ v.indicators.rsi_signal = "Unknown"
                /\ v.indicators.bb_upper = bars.Close[1]
                /\ v.indicators.bb_lower = bars.Close[1]
                /\ v.volatility.status = "Low"
                /\ v.volatility.annualized_20d = Num(0)

\* C21 witness: the summary of 60 bars closing at 10
C21_Witness ==
    \E t \in Threads :
        /\ Full(t)
        /\ Len(bars.Close) = 60
        /\ Flat(bars.Close)
        /\ outcome[t].value.indicators.rsi = None
        /\ outcome[t].value.indicators.bb_upper = Num(10)
        /\ outcome[t].value.volatility.status = "Low"

----------------------------------------------------------------------------
(* the fundamental analysis *)

\* the metrics analyze_metrics was given, and one of them (None if absent)
MetricsGiven == Get(fmp_data, "metrics", None)
Metric(k) == Get(MetricsGiven, k, None)

\* the label of a ratio x in the bands below lo, below hi, and from hi on
Banded(x, label, lo, hi) ==
    /\ label \in {"N/A", "Undervalued", "Fair Value", "Overvalued"}
    /\ label = "N/A" <=> x = None \/ LE(x, Num(0))
    /\ label = "Undervalued" <=> x # None /\ GT(x, Num(0)) /\ LT(x, Num(lo))
    /\ label = "Fair Value" <=> x # None /\ GE(x, Num(lo)) /\ LT(x, Num(hi))
    /\ label = "Overvalued" <=> x # None /\ GE(x, Num(hi))

\* C22: the P/E label is "N/A" for an undefined or non-positive P/E,
\* "Undervalued" for 0 < P/E < 15, "Fair Value" for 15 <= P/E < 25 and
\* "Overvalued" for P/E >= 25 (12, 0 and 30 give Undervalued, N/A and
\* Overvalued); the P/B label has the same bands at 1 and 3.
C22_ValuationBands ==
    /\ interpret_pe(Num(12)) = "Undervalued"
    /\ interpret_pe(Num(0)) = "N/A"
    /\ interpret_pe(Num(30)) = "Overvalued"
    /\ result.op = "analyze_metrics" /\ Truthy(MetricsGiven) =>
            /\ Banded(Metric("peRatio"), result.out.valuation.pe_interpretation, 15, 25)
            /\ Banded(Metric("pbRatio"), result.out.valuation.pb_interpretation, 1, 3)

\* C22 witness: a P/E of exactly 15 is "Fair Value"
C22_Witness ==
    /\ result.op = "analyze_metrics"
    /\ Truthy(MetricsGiven)
    /\ Metric("peRatio") = Num(15)
    /\ result.out.valuation.pe_interpretation = "Fair Value"

\* undefined or zero: what the quality labels show as "N/A"
NoFigure(x) == x = None \/ x = Num(0)

\* C23: the quality labels are "N/A" exactly for an undefined or zero input;
\* otherwise ROE in percent (the fraction times 100) > 20 is "Excellent",
\* > 15 "Good", > 10 "Average", anything else, every negative ROE included,
\* "Poor"; debt to equity < 0.5 is "Low Debt", < 1.5 "Moderate Debt", else
\* "High Debt"; a current ratio > 2 is "Strong Liquidity", > 1 "Adequate
\* Liquidity", else "Weak Liquidity".
C23_QualityBands ==
    result.op = "analyze_metrics" /\ Truthy(MetricsGiven) =>
        LET roe == Metric("roe")
            roe_label == result.out.profitability.roe_interpretation
            debt == Metric("debtToEquity")
            debt_label == result.out.financial_health.debt_interpretation
            ratio == Metric("currentRatio")
            ratio_label == result.out.financial_health.liquidity_interpretation
        IN  /\ roe_label = "N/A" <=> NoFigure(roe)
            /\ ~NoFigure(roe) =>
                    roe_label = IF GT(roe, Rat(20, 100)) THEN "Excellent"
                                ELSE IF GT(roe, Rat(15, 100)) THEN "Good"
                                ELSE IF GT(roe, Rat(10, 100)) THEN "Average"
                                ELSE "Poor"
            /\ ~NoFigure(roe) /\ LT(roe, Num(0)) => roe_label = "Poor"
            /\ ~NoFigure(roe) =>
                    result.out.profitability.roe.num * Den(roe)
                        = 100 * roe.num * Den(result.out.profitability.roe)
            /\ debt_label = "N/A" <=> NoFigure(debt)
            /\ ~NoFigure(debt) =>
                    debt_label = IF LT(debt, Rat(1, 2)) THEN "Low Debt"
                                 ELSE IF LT(debt, Rat(3, 2)) THEN "Moderate Debt"
                                 ELSE "High Debt"
            /\ ratio_label = "N/A" <=> NoFigure(ratio)
            /\ ~NoFigure(ratio) =>
                    ratio_label = IF GT(ratio, Num(2)) THEN "Strong Liquidity"
                                  ELSE IF GT(ratio, Num(1)) THEN "Adequate Liquidity"
                                  ELSE "Weak Liquidity"

\* C23 witness: a negative return on equity is "Poor"
C23_Witness ==
    /\ result.op = "analyze_metrics"
    /\ Truthy(MetricsGiven)
    /\ Metric("roe") # None
    /\ LT(Metric("roe"), Num(0))
    /\ result.out.profitability.roe_interpretation = "Poor"

\* the ratings analyze_ratings was given, and one of its counts (0 if absent)
RatingsGiven == Get(fmp_data, "ratings", None)
Count(k) == Get(RatingsGiven, k, Num(0)).num

\* C24: with total = buy + hold + sell, ratings that are missing or total 0
\* are not available; otherwise the consensus is the label of the first
\* guard that holds of buy/total > 0.6 "Strong Buy", buy/total > 0.4 "Buy",
\* sell/total > 0.6 "Strong Sell", sell/total > 0.4 "Sell", else "Hold".
C24_Consensus ==
    result.op = "analyze_ratings" /\ result.kind = "return" =>
        IF ~Truthy(RatingsGiven) THEN result.out = [available |-> FALSE]
        ELSE LET buy == Count("buy")
                 sell == Count("sell")
                 total == Count("buy") + Count("hold") + Count("sell")
             IN  IF total = 0 THEN result.out = [available |-> FALSE]
                 ELSE /\ result.out.available
                      /\ result.out.total = Num(total)
                      /\ result.out.consensus =
                            IF 10 * buy > 6 * total THEN "Strong Buy"
                            ELSE IF 10 * buy > 4 * total THEN "Buy"
                            ELSE IF 10 * sell > 6 * total THEN "Strong Sell"
                            ELSE IF 10 * sell > 4 * total THEN "Sell"
                            ELSE "Hold"

\* C24 witness: buys and sells both above 0.4 of the total are a "Buy"
C24_Witness ==
    /\ result.op = "analyze_ratings"
    /\ result.kind = "return"
    /\ Truthy(RatingsGiven)
    /\ Count("buy") > 0
    /\ Count("buy") = Count("sell")
    /\ Count("hold") = 0
    /\ result.out.consensus = "Buy"

Sections == {"profile", "metrics", "news", "ratings", "earnings"}

\* a field that is there and null where the code computes with a number
NullNumber(d) ==
    \/ /\ Truthy(Get(d, "profile", None))
       /\ "mktCap" \in DOMAIN d.profile
       /\ d.profile.mktCap = None
    \/ /\ Truthy(Get(d, "ratings", None))
       /\ \E k \in {"buy", "hold", "sell"} \cap DOMAIN d.ratings : d.ratings[k] = None

\* the field of the analysed profile that shows a field of the profile
ShownAs(f) ==
    CASE f = "companyName" -> "company_name"
      [] f = "mktCap" -> "market_cap"
      [] f = "exchangeShortName" -> "exchange"
      [] f = "fullTimeEmployees" -> "employees"
      [] OTHER -> f

----------------------------------------------------------------------------
(* the analyst *)

\* the text the service answers, and the JSON text left of it once the
\* fences are stripped
Answer == gemini.service.text
Payload == extract_json(Answer)

\* the answer is no JSON, or JSON without one of the required fields
Malformed ==
    \/ json_decode_error(Payload)
    \/ ~IsObject(json_loads(Payload))
    \/ ~(required_fields \subseteq DOMAIN json_loads(Payload))

\* C25: _parse_response strips the fences and, for an answer that is no JSON
\* or lacks recommendation, confidence or reasoning, returns the neutral HOLD
\* placeholder, never None and never an exception.
C25_MalformedEndsInFallback ==
    result.op = "_parse_response" =>
        IF Malformed THEN result.out = Fallback ELSE result.out = json_loads(Payload)

\* C27: a disabled analyst returns None without asking the service; an
\* enabled one given a full technical summary and a fundamental summary,
\* whose service answers valid JSON with recommendation, confidence and
\* reasoning, returns that parsed object.
C27_AnalyzeStock ==
    result.op = "analyze_stock" =>
        /\ ~gemini.enabled => result.out = None /\ gemini.asked = 0
        /\ /\ gemini.enabled
           /\ "error" \notin DOMAIN result.technical
           /\ "text" \in DOMAIN gemini.service
           /\ ~Malformed
           => result.out = json_loads(Payload)

----------------------------------------------------------------------------
(* the summary as a whole *)

\* C28: in a full summary the trend is "Strong Uptrend" iff the reasons
\* hold "Price Above Key MAs" and "Strong Downtrend" iff they hold "Price
\* Below Key MAs"; with any other trend the moving-average rule added 0 to
\* the score.
C28_TrendAgreesWithReasons ==
    \A t \in Threads :
        Full(t) =>
            LET v == outcome[t].value
                reasons == Range(v.signals.reasons)
                ma == v.signals.strength - RsiPoints(t_latest[t])
                        - MacdPoints(v.indicators.macd_interpretation)
            IN  /\ v.trend = "Strong Uptrend" <=> "Price Above Key MAs" \in reasons
                /\ v.trend = "Strong Downtrend" <=> "Price Below Key MAs" \in reasons
                /\ v.trend \in {"Unknown", "Uptrend", "Downtrend", "Sideways"} => ma = 0
                /\ v.trend = "Strong Uptrend" => ma = 2
                /\ v.trend = "Strong Downtrend" => ma = -2
                /\ v.trend \in {"Strong Uptrend", "Strong Downtrend", "Unknown", "Uptrend",
                                "Downtrend", "Sideways"}

\* C28 witness: a strong downtrend whose reasons hold the moving-average
\* rule next to another rule's
C28_Witness ==
    \E t \in Threads :
        /\ Full(t)
        /\ outcome[t].value.trend = "Strong Downtrend"
        /\ "Price Below Key MAs" \in Range(outcome[t].value.signals.reasons)
        /\ Len(outcome[t].value.signals.reasons) > 1

\* the labels of lines 113-119
IndicatorLabels ==
    {"SMA_20", "SMA_50", "SMA_200", "RSI", "MACD", "MACD_Signal", "MACD_Hist", "BB_Upper",
     "BB_Middle", "BB_Lower", "ATR"}

\* C29: a call that ends in the insufficient-data error (an empty series or
\* fewer than 50 bars) leaves the series as it was when the call began: no
\* indicator column is added or overwritten.
C29_ErrorLeavesSeriesUnchanged ==
    \A t \in Threads :
        Finished(t) /\ outcome[t].kind = "return" /\ "error" \in DOMAIN outcome[t].value =>
            /\ data.cols = before[t]
            /\ \A i \in 1..Len(data.cols) : data.cols[i].name \notin IndicatorLabels

\* C29 witness: a call on 49 bars has returned the error
C29_Witness ==
    \E t \in Threads :
        /\ Finished(t)
        /\ outcome[t] = Returned(InsufficientData)
        /\ data.n = MinBars - 1
        /\ Len(data.cols) > 0

\* the volumes of the last 20 bars add up to 0
ZeroMeanVolume ==
    LET volumes == [k \in 1..Len(bars.Volume) |-> bars.Volume[k].num]
    IN  Len(volumes) >= 20 /\ ISum(volumes, Len(volumes) - 19, Len(volumes)) = 0

\* C30: with a mean volume of 0 over the last 20 bars the volume analysis
\* has ratio exactly 1 and status "Normal"; in the summary of 50 or more
\* bars neither the volume analysis nor the volatility is the
\* insufficient-data status.
C30_ZeroMeanVolume ==
    \A t \in Threads :
        Full(t) =>
            LET v == outcome[t].value
            IN  /\ Len(bars.Close) >= MinBars
                /\ v.volume_analysis.status \in {"High", "Normal", "Low"}
                /\ v.volatility.status \in {"High", "Moderate", "Low"}
                /\ ZeroMeanVolume =>
                        /\ v.volume_analysis.ratio = Num(1)
                        /\ v.volume_analysis.status = "Normal"

\* C30 witness: the summary of a series that was not traded for 20 bars
C30_Witness ==
    \E t \in Threads :
        /\ Full(t)
        /\ ZeroMeanVolume
        /\ outcome[t].value.volume_analysis.ratio = Num(1)
        /\ outcome[t].value.volume_analysis.status = "Normal"
        /\ outcome[t].value.volatility.status = "Low"

====
